---- MODULE Spec2Model ----
(***************************************************************************)
(* A model of gguf-parser-go: the GGUF decoder parseGGUFFile and its       *)
(* readers (file.go), the typed metadata accessors, the tensor size        *)
(* calculator, the layer hierarchy builder and the file-type inferencer    *)
(* (Model / guessFileType).                                                *)
(*                                                                         *)
(* Go values of interface type (GGUFMetadataKV.Value, the items of         *)
(* GGUFMetadataKVArrayValue.Array) are records [t, v]: t is the dynamic Go *)
(* type and v the value.  A call returns a record [kind, v, msg]: kind is  *)
(* "ok" (v is the result), "err" (a returned error, msg its text) or       *)
(* "panic" (the call aborts, msg the panic's text).                        *)
(***************************************************************************)
EXTENDS Integers, Sequences, FiniteSets, TLC

VARIABLES
    inp,    \* what the caller's byte source was built from (the test input)
    f,      \* the byte source: a sequence of bytes
    s,      \* the size of the byte source, as the caller passed it
    o,      \* _GGUFReadOptions: [SkipLargeMetadata, MMap]
    pos,    \* the stream cursor of f
    bo,     \* the byte order in use: "LE" or "BE"
    pc,     \* the step parseGGUFFile is at, or how it ended
    gf,     \* the GGUFFile under construction / returned
    ag,     \* parseGGUFFile's local: the alignment
    err,    \* the error parseGGUFFile returned ("" for none)
    ret     \* the result of the on-demand call made on gf

vars == <<inp, f, s, o, pos, bo, pc, gf, ag, err, ret>>

(***************************************************************************)
(* Bounds of the model.                                                    *)
(***************************************************************************)
\* padding-start offsets 0..MaxPds are tried by the padding specification
MaxPds == 70
\* at most this many "blk" tensors of one element type in an inferred list
MaxPerType == 4
\* at most this many tensors in a list that is regrouped into layers
MaxTensors == 3
\* at most this many items in a metadata array of the accessor inputs
MaxArrayLen == 2

\* The largest integer the model tells apart; a Go value above it (up to
\* 2^64-1) reads as Saturated.
Saturated == 2147483646 + 1

\* uint64 sums and products that stop at Saturated
SatAdd(a, b) == IF a >= Saturated - b THEN Saturated ELSE a + b
SatMul(a, b) == IF b # 0 /\ a > Saturated \div b THEN Saturated ELSE a * b

(***************************************************************************)
(* Results of calls.                                                       *)
(***************************************************************************)
Ok(v) == [kind |-> "ok", v |-> v, msg |-> ""]
Err(m) == [kind |-> "err", v |-> 0, msg |-> m]
Panic(m) == [kind |-> "panic", v |-> 0, msg |-> m]
NoCall == [call |-> "none"]

\* Bind(x, F) is F(x): it names the result of a call for the code that goes
\* on with it, as an assignment to a local variable does.
Bind(x, F(_)) == F(x)

(***************************************************************************)
(* GGUFMetadataValueType (file.go, 113-128).                               *)
(***************************************************************************)
GGUFMetadataValueTypeUint8 == 0
GGUFMetadataValueTypeInt8 == 1
GGUFMetadataValueTypeUint16 == 2
GGUFMetadataValueTypeInt16 == 3
GGUFMetadataValueTypeUint32 == 4
GGUFMetadataValueTypeInt32 == 5
GGUFMetadataValueTypeFloat32 == 6
GGUFMetadataValueTypeBool == 7
GGUFMetadataValueTypeString == 8
GGUFMetadataValueTypeArray == 9
GGUFMetadataValueTypeUint64 == 10
GGUFMetadataValueTypeInt64 == 11
GGUFMetadataValueTypeFloat64 == 12
GGUFMetadataValueTypeCount == 13

ValueTypes == 0 .. (GGUFMetadataValueTypeCount - 1)

IntegerValueTypes ==
    { GGUFMetadataValueTypeUint8, GGUFMetadataValueTypeInt8,
      GGUFMetadataValueTypeUint16, GGUFMetadataValueTypeInt16,
      GGUFMetadataValueTypeUint32, GGUFMetadataValueTypeInt32,
      GGUFMetadataValueTypeUint64, GGUFMetadataValueTypeInt64 }

FloatValueTypes == { GGUFMetadataValueTypeFloat32, GGUFMetadataValueTypeFloat64 }

NumericValueTypes == IntegerValueTypes \cup FloatValueTypes

\* The Go type of the value _GGUFReader.ReadValue returns for a tag: the
\* result type of the reader each case calls.
GoTypeOf(vt) ==
    CASE vt = GGUFMetadataValueTypeUint8 -> "uint8"
      [] vt = GGUFMetadataValueTypeInt8 -> "int8"
      [] vt = GGUFMetadataValueTypeUint16 -> "uint16"
      [] vt = GGUFMetadataValueTypeInt16 -> "int16"
      [] vt = GGUFMetadataValueTypeUint32 -> "uint32"
      [] vt = GGUFMetadataValueTypeInt32 -> "int32"
      [] vt = GGUFMetadataValueTypeFloat32 -> "float32"
      [] vt = GGUFMetadataValueTypeBool -> "bool"
      [] vt = GGUFMetadataValueTypeString -> "string"
      [] vt = GGUFMetadataValueTypeArray -> "GGUFMetadataKVArrayValue"
      [] vt = GGUFMetadataValueTypeUint64 -> "uint64"
      [] vt = GGUFMetadataValueTypeInt64 -> "int64"
      [] vt = GGUFMetadataValueTypeFloat64 -> "float64"

GoVal(t, v) == [t |-> t, v |-> v]

\* A Go type assertion x.(T): the value when the dynamic type is T, a panic
\* otherwise.
TypeAssert(x, T) ==
    IF x.t = T THEN Ok(x.v)
    ELSE Panic("interface conversion: interface {} is " \o x.t \o ", not " \o T)

(***************************************************************************)
(* Typed accessors of GGUFMetadataKV (file.go, 539-628).  The thirteen     *)
(* methods ValueUint8 .. ValueFloat64 differ only in the tag X they test   *)
(* and the Go type they assert, which is GoTypeOf(X) in each of them.      *)
(***************************************************************************)
ValueX(kv, X) ==
    IF kv.ValueType # X THEN Panic("invalid type")
    ELSE TypeAssert(kv.Value, GoTypeOf(X))

\* The loop of ValuesX: v[i] = av.Array[i].(T) for i < av.Len.  Indexing past
\* len(av.Array) panics.
RECURSIVE ValuesLoop(_, _, _, _)
ValuesLoop(av, T, i, acc) ==
    IF i >= av.Len THEN Ok(acc)
    ELSE IF i >= Len(av.Array) THEN Panic("index out of range")
    ELSE LET a == TypeAssert(av.Array[i + 1], T)
         IN  IF a.kind # "ok" THEN a
             ELSE ValuesLoop(av, T, i + 1, Append(acc, a.v))

\* Typed accessors of GGUFMetadataKVArrayValue (file.go, 664-805):
\* ValuesUint8 .. ValuesFloat64, alike but for the tag X.
ValuesX(av, X) ==
    IF av.Type # X THEN Panic("invalid type")
    ELSE ValuesLoop(av, GoTypeOf(X), 0, <<>>)

(***************************************************************************)
(* Go's numeric conversion T(x).  Integers wrap to T's width; a float is   *)
(* truncated toward zero.  A float32 is held as its IEEE-754 bit pattern,  *)
(* a float64 as the two 32-bit words [hi, lo] of its pattern.  T ranges    *)
(* over NumericTargets.                                                    *)
(***************************************************************************)
NumericTargets == {"uint8", "int8", "uint32"}

RECURSIVE Pow2(_)
Pow2(n) == IF n = 0 THEN 1 ELSE 2 * Pow2(n - 1)

\* The integer part of a non-negative float with `mbits` mantissa bits held
\* in `bits` (sign 0) and exponent bias `bias`.
TruncFloat(bits, mbits, bias) ==
    LET e == (bits \div Pow2(mbits)) - bias
        m == Pow2(mbits) + (bits % Pow2(mbits))
    IN  IF e < 0 THEN 0
        ELSE IF e <= mbits THEN m \div Pow2(mbits - e)
        ELSE Saturated

FloatToInt(x) ==
    CASE x.t = "float32" -> TruncFloat(x.v, 23, 127)
      [] x.t = "float64" -> TruncFloat(x.v.hi, 20, 1023)
      [] OTHER -> x.v

Convert(T, x) ==
    LET n == FloatToInt(x)
    IN  CASE T = "uint8" -> n % 256
          [] T = "int8" -> ((n + 128) % 256) - 128
          [] T = "uint32" -> IF n >= 0 THEN n ELSE Saturated

\* The type ValueNumeric asserts in each case of its switch: its own tag's
\* type, but int16 in the case of GGUFMetadataValueTypeUint16 (line 644).
NumericAssertedType(vt) ==
    IF vt = GGUFMetadataValueTypeUint16 THEN "int16" ELSE GoTypeOf(vt)

\* ValueNumeric[T] (file.go, 637-662).
ValueNumeric(T, kv) ==
    IF kv.ValueType \in NumericValueTypes
    THEN LET a == TypeAssert(kv.Value, NumericAssertedType(kv.ValueType))
         IN  IF a.kind # "ok" THEN a
             ELSE Ok(Convert(T, GoVal(NumericAssertedType(kv.ValueType), a.v)))
    ELSE Panic("invalid type")

(***************************************************************************)
(* GGUFMetadataKVs.Get (file.go, 847-854): the first entry of that key.    *)
(***************************************************************************)
RECURSIVE KVsGetFrom(_, _, _)
KVsGetFrom(kvs, key, i) ==
    IF i > Len(kvs) THEN [found |-> FALSE, value |-> [Key |-> ""]]
    ELSE IF kvs[i].Key = key THEN [found |-> TRUE, value |-> kvs[i]]
    ELSE KVsGetFrom(kvs, key, i + 1)

KVsGet(kvs, key) == KVsGetFrom(kvs, key, 1)

(***************************************************************************)
(* Strings are sequences of bytes, so that splitting, prefixes and         *)
(* trimming are computed as the code computes them.                        *)
(***************************************************************************)
Dot == 46
Str_blk == <<98, 108, 107>>
Str_block == <<98, 108, 111, 99, 107>>
Str_decoder == <<100, 101, 99, 111, 100, 101, 114>>
Str_encoder == <<101, 110, 99, 111, 100, 101, 114>>
Key_alignment == <<103, 101, 110, 101, 114, 97, 108, 46, 97, 108, 105, 103, 110, 109, 101, 110, 116>>
Key_architecture == <<103, 101, 110, 101, 114, 97, 108, 46, 97, 114, 99, 104, 105, 116, 101, 99, 116, 117, 114, 101>>
Key_quantization == <<103, 101, 110, 101, 114, 97, 108, 46, 113, 117, 97, 110, 116, 105, 122, 97, 116, 105, 111, 110, 95, 118, 101, 114, 115, 105, 111, 110>>
Key_name == <<103, 101, 110, 101, 114, 97, 108, 46, 110, 97, 109, 101>>
Key_author == <<103, 101, 110, 101, 114, 97, 108, 46, 97, 117, 116, 104, 111, 114>>
Key_url == <<103, 101, 110, 101, 114, 97, 108, 46, 117, 114, 108>>
Key_description == <<103, 101, 110, 101, 114, 97, 108, 46, 100, 101, 115, 99, 114, 105, 112, 116, 105, 111, 110>>
Key_license == <<103, 101, 110, 101, 114, 97, 108, 46, 108, 105, 99, 101, 110, 115, 101>>
Key_file_type == <<103, 101, 110, 101, 114, 97, 108, 46, 102, 105, 108, 101, 95, 116, 121, 112, 101>>

\* strings.HasPrefix
HasPrefix(str, p) == Len(str) >= Len(p) /\ SubSeq(str, 1, Len(p)) = p

\* strings.Split(str, "."): the parts between the dots, empty parts included.
RECURSIVE SplitFrom(_, _, _, _)
SplitFrom(str, i, cur, acc) ==
    IF i > Len(str) THEN Append(acc, cur)
    ELSE IF str[i] = Dot THEN SplitFrom(str, i + 1, <<>>, Append(acc, cur))
    ELSE SplitFrom(str, i + 1, Append(cur, str[i]), acc)

Split(str) == SplitFrom(str, 1, <<>>, <<>>)

\* strings.Join(parts, ".")
RECURSIVE Join(_)
Join(ps) ==
    IF Len(ps) = 0 THEN <<>>
    ELSE IF Len(ps) = 1 THEN ps[1]
    ELSE ps[1] \o <<Dot>> \o Join(Tail(ps))

(***************************************************************************)
(* GGMLType: the element types of tensors.  The enumeration and the traits *)
(* are declared in a file of the repository that is not under src/; the    *)
(* tags are those of ggml's ggml_type, the traits its block sizes.         *)
(***************************************************************************)
GGMLTypeF32 == 0
GGMLTypeF16 == 1
GGMLTypeQ4_0 == 2
GGMLTypeQ4_1 == 3
GGMLTypeQ4_2 == 4
GGMLTypeQ4_3 == 5
GGMLTypeQ5_0 == 6
GGMLTypeQ5_1 == 7
GGMLTypeQ8_0 == 8
GGMLTypeQ2_K == 10
GGMLTypeQ3_K == 11
GGMLTypeQ4_K == 12
GGMLTypeQ5_K == 13
GGMLTypeQ6_K == 14
GGMLTypeIQ2_XXS == 16
GGMLTypeIQ2_XS == 17
GGMLTypeIQ3_XXS == 18
GGMLTypeIQ1_S == 19
GGMLTypeIQ4_NL == 20
GGMLTypeIQ3_S == 21
GGMLTypeIQ2_S == 22
GGMLTypeIQ4_XS == 23
GGMLTypeIQ1_M == 29
GGMLTypeBF16 == 30
GGMLTypeCount == 31

\* GGMLType.Trait: [ok, BlockSize, TypeSize]; ok is FALSE for a type with no
\* trait (the removed Q4_2 and Q4_3).
Trait(t) ==
    CASE t = GGMLTypeF32 -> [ok |-> TRUE, BlockSize |-> 1, TypeSize |-> 4]
      [] t = GGMLTypeF16 -> [ok |-> TRUE, BlockSize |-> 1, TypeSize |-> 2]
      [] t = GGMLTypeQ4_0 -> [ok |-> TRUE, BlockSize |-> 32, TypeSize |-> 18]
      [] t = GGMLTypeQ4_1 -> [ok |-> TRUE, BlockSize |-> 32, TypeSize |-> 20]
      [] t = GGMLTypeQ8_0 -> [ok |-> TRUE, BlockSize |-> 32, TypeSize |-> 34]
      [] t = GGMLTypeQ3_K -> [ok |-> TRUE, BlockSize |-> 256, TypeSize |-> 110]
      [] t = GGMLTypeQ4_K -> [ok |-> TRUE, BlockSize |-> 256, TypeSize |-> 144]
      [] t = GGMLTypeQ5_K -> [ok |-> TRUE, BlockSize |-> 256, TypeSize |-> 176]
      [] t = GGMLTypeQ6_K -> [ok |-> TRUE, BlockSize |-> 256, TypeSize |-> 210]
      [] OTHER -> [ok |-> FALSE, BlockSize |-> 0, TypeSize |-> 0]

(***************************************************************************)
(* GGUFFileType (part_000, 75-102).                                        *)
(***************************************************************************)
GGUFFileTypeAllF32 == 0
GGUFFileTypeMostlyF16 == 1
GGUFFileTypeMostlyQ4_0 == 2
GGUFFileTypeMostlyQ4_1 == 3
GGUFFileTypeMostlyQ4_1_F16 == 4
GGUFFileTypeMostlyQ4_2 == 5
GGUFFileTypeMostlyQ4_3 == 6
GGUFFileTypeMostlyQ8_0 == 7
GGUFFileTypeMostlyQ5_0 == 8
GGUFFileTypeMostlyQ5_1 == 9
GGUFFileTypeMostlyQ2_K == 10
GGUFFileTypeMostlyQ3_K == 11
GGUFFileTypeMostlyQ4_K == 12
GGUFFileTypeMostlyQ5_K == 13
GGUFFileTypeMostlyQ6_K == 14
GGUFFileTypeMostlyIQ2_XXS == 15
GGUFFileTypeMostlyIQ2_XS == 16
GGUFFileTypeMostlyIQ3_XXS == 17
GGUFFileTypeMostlyIQ1_S == 18
GGUFFileTypeMostlyIQ4_NL == 19
GGUFFileTypeMostlyIQ3_S == 20
GGUFFileTypeMostlyIQ2_S == 21
GGUFFileTypeMostlyIQ4_XS == 22
GGUFFileTypeMostlyIQ1_M == 23
GGUFFileTypeMostlyBF16 == 24
GGUFFileTypeCount == 25

(***************************************************************************)
(* Tensor size calculator (file.go, 918-973).  uint64 arithmetic; the      *)
(* model's dimensions keep every product below 2^31.                       *)
(***************************************************************************)
RECURSIVE ElementsLoop(_, _, _)
ElementsLoop(ti, i, acc) ==
    IF i >= ti.NDimensions THEN acc
    ELSE ElementsLoop(ti, i + 1, acc * ti.Dimensions[i + 1])

\* Elements without the test of line 919: the empty product for no dimension
TensorElementsOfNone(ti) == ElementsLoop(ti, 0, 1)

\* GGUFTensorInfo.Elements
TensorElements(ti) ==
    IF ti.NDimensions = 0 THEN 0 ELSE ElementsLoop(ti, 0, 1)

\* The stride table nb of GGUFTensorInfo.Bytes (lines 944-951), 1-based here.
RECURSIVE StrideLoop(_, _, _)
StrideLoop(ti, i, nb) ==
    IF i >= ti.NDimensions THEN nb
    ELSE StrideLoop(ti, i + 1, Append(nb, nb[i] * ti.Dimensions[i]))

\* The stride table with the second stride taken per element, not per block
StridesPerElement(ti, tt) ==
    StrideLoop(ti, 2, <<tt.TypeSize, tt.TypeSize * ti.Dimensions[1]>>)

Strides(ti, tt) ==
    StrideLoop(ti, 2,
        <<tt.TypeSize, tt.TypeSize * (ti.Dimensions[1] \div tt.BlockSize)>>)

RECURSIVE BytesLoop(_, _, _, _)
BytesLoop(ti, nb, i, acc) ==
    IF i >= ti.NDimensions THEN acc
    ELSE BytesLoop(ti, nb, i + 1, acc + (ti.Dimensions[i + 1] - 1) * nb[i + 1])

\* Bytes with the sum of the dense types taken for every type
TensorBytesDense(ti) ==
    IF ti.NDimensions = 0 THEN Ok(0)
    ELSE LET tt == Trait(ti.Type)
         IN  IF ~tt.ok THEN Panic("invalid type")
             ELSE Ok(BytesLoop(ti, Strides(ti, tt), 0, tt.TypeSize))

\* GGUFTensorInfo.Bytes: a result record, as it panics on a type with no trait.
TensorBytes(ti) ==
    IF ti.NDimensions = 0 THEN Ok(0)
    ELSE LET tt == Trait(ti.Type)
         IN  IF ~tt.ok THEN Panic("invalid type")
             ELSE LET nb == Strides(ti, tt)
                  IN  IF tt.BlockSize = 1
                      THEN Ok(BytesLoop(ti, nb, 0, tt.TypeSize))
                      ELSE Ok(BytesLoop(ti, nb, 1,
                                 (ti.Dimensions[1] * nb[1]) \div tt.BlockSize))

\* GGUFTensorInfos.Elements / Bytes / Count (file.go, 1016-1037)
RECURSIVE TensorInfosElements(_)
TensorInfosElements(tis) ==
    IF Len(tis) = 0 THEN 0
    ELSE TensorElements(Head(tis)) + TensorInfosElements(Tail(tis))

RECURSIVE TensorInfosBytes(_)
TensorInfosBytes(tis) ==
    IF Len(tis) = 0 THEN Ok(0)
    ELSE LET h == TensorBytes(Head(tis))
             r == TensorInfosBytes(Tail(tis))
         IN  IF h.kind # "ok" THEN h
             ELSE IF r.kind # "ok" THEN r
             ELSE Ok(h.v + r.v)

TensorInfosCount(tis) == Len(tis)

(***************************************************************************)
(* GGUFMagic and GGUFVersion (file.go, 75-92).                             *)
(***************************************************************************)
GGUFMagicGGML == 1734831468
GGUFMagicGGMF == 1734831462
GGUFMagicGGJT == 1734830708
GGUFMagicGGUFLe == 1179993927
GGUFMagicGGUFBe == 1195857222
GGUFVersionV1 == 1
GGUFVersionV2 == 2
GGUFVersionV3 == 3

(***************************************************************************)
(* GGUFMetadataKVs.Index (file.go, 868-884).  The map it returns is a      *)
(* function from the keys stored to the entries.                           *)
(***************************************************************************)
MapPut(m, k, v) == [x \in (DOMAIN m) \cup {k} |-> IF x = k THEN v ELSE m[x]]

RECURSIVE IndexLoop(_, _, _, _, _)
IndexLoop(kvs, ks, i, values, found) ==
    IF i > Len(kvs) THEN [values |-> values, found |-> found]
    ELSE LET hit == kvs[i].Key \in ks
             values2 == IF hit THEN MapPut(values, kvs[i].Key, kvs[i]) ELSE values
             found2 == IF hit THEN found + 1 ELSE found
         IN  IF found2 = Cardinality(ks)
             THEN [values |-> values2, found |-> found2]
             ELSE IndexLoop(kvs, ks, i + 1, values2, found2)

KVsIndex(kvs, keys) ==
    IndexLoop(kvs, {keys[i] : i \in 1 .. Len(keys)}, 1, <<>>, 0)

(***************************************************************************)
(* guessFileType (part_000, 236-331).                                      *)
(***************************************************************************)
\* The tensors counted: those whose name starts with "blk" (lines 245-250).
BlkTypes(tis) ==
    { tis[i].Type : i \in { j \in 1 .. Len(tis) : HasPrefix(tis[j].Name, Str_blk) } }

\* cm[t] of line 249
TypeCount(tis, t) ==
    Cardinality({ j \in 1 .. Len(tis) :
                    HasPrefix(tis[j].Name, Str_blk) /\ tis[j].Type = t })

\* The orders ts may have after lines 253-259: the keys of cm, collected in
\* the map's iteration order (which Go leaves open) and sorted by descending
\* count with a sort that is not stable; types of equal count come in any
\* order.
Rankings(tis) ==
    LET T == BlkTypes(tis)
        n == Cardinality(T)
    IN  { ts \in [1 .. n -> T] :
            /\ \A i, j \in 1 .. n : i # j => ts[i] # ts[j]
            /\ \A i, j \in 1 .. n :
                 i < j => TypeCount(tis, ts[i]) >= TypeCount(tis, ts[j]) }

\* ts[i] of the code (0-based): a panic when i is out of range.
HasIndex(ts, i) == i < Len(ts)

\* The case of GGMLTypeQ3_K (lines 287-295): it reads ts[1] unguarded.
GuessQ3_K(ts) ==
    IF ~HasIndex(ts, 1) THEN Panic("index out of range")
    ELSE IF ts[2] = GGMLTypeQ4_K THEN Ok(GGUFFileTypeMostlyQ4_K)
    ELSE IF ts[2] = GGMLTypeQ5_K THEN Ok(GGUFFileTypeMostlyQ5_K)
    ELSE Ok(GGUFFileTypeMostlyQ3_K)

\* The case of GGMLTypeQ4_K (lines 296-300)
GuessQ4_K(ts) ==
    IF Len(ts) > 2 /\ ts[3] = GGMLTypeQ6_K THEN Ok(GGUFFileTypeMostlyIQ2_XXS)
    ELSE Ok(GGUFFileTypeMostlyQ6_K)

\* The case of GGMLTypeQ5_K (lines 301-305)
GuessQ5_K(ts) ==
    IF Len(ts) > 2 /\ ts[3] = GGMLTypeQ6_K THEN Ok(GGUFFileTypeMostlyIQ3_XXS)
    ELSE Ok(GGUFFileTypeMostlyIQ2_XS)

\* The switch on ts[0] (lines 266-330)
GuessSwitch(ts) ==
    LET t == ts[1]
    IN  CASE t = GGMLTypeF32 -> Ok(GGUFFileTypeAllF32)
          [] t = GGMLTypeF16 -> Ok(GGUFFileTypeMostlyF16)
          [] t = GGMLTypeQ4_0 -> Ok(GGUFFileTypeMostlyQ4_0)
          [] t = GGMLTypeQ4_1 -> Ok(GGUFFileTypeMostlyQ4_1)
          [] t = GGMLTypeQ4_2 -> Ok(GGUFFileTypeMostlyQ4_2)
          [] t = GGMLTypeQ4_3 -> Ok(GGUFFileTypeMostlyQ4_3)
          [] t = GGMLTypeQ5_0 -> Ok(GGUFFileTypeMostlyQ5_0)
          [] t = GGMLTypeQ5_1 -> Ok(GGUFFileTypeMostlyQ5_1)
          [] t = GGMLTypeQ8_0 -> Ok(GGUFFileTypeMostlyQ8_0)
          [] t = GGMLTypeQ2_K -> Ok(GGUFFileTypeMostlyQ2_K)
          [] t = GGMLTypeQ3_K -> GuessQ3_K(ts)
          [] t = GGMLTypeQ4_K -> GuessQ4_K(ts)
          [] t = GGMLTypeQ5_K -> GuessQ5_K(ts)
          [] t = GGMLTypeQ6_K -> Ok(GGUFFileTypeMostlyIQ1_S)
          [] t = GGMLTypeIQ2_XXS -> Ok(GGUFFileTypeMostlyIQ2_XXS)
          [] t = GGMLTypeIQ2_XS -> Ok(GGUFFileTypeMostlyIQ2_XS)
          [] t = GGMLTypeIQ3_XXS -> Ok(GGUFFileTypeMostlyIQ3_XXS)
          [] t = GGMLTypeIQ1_S -> Ok(GGUFFileTypeMostlyIQ1_S)
          [] t = GGMLTypeIQ4_NL -> Ok(GGUFFileTypeMostlyIQ4_NL)
          [] t = GGMLTypeIQ3_S -> Ok(GGUFFileTypeMostlyIQ3_S)
          [] t = GGMLTypeIQ2_S -> Ok(GGUFFileTypeMostlyIQ2_S)
          [] t = GGMLTypeIQ4_XS -> Ok(GGUFFileTypeMostlyIQ4_XS)
          [] t = GGMLTypeIQ1_M -> Ok(GGUFFileTypeMostlyIQ1_M)
          [] t = GGMLTypeBF16 -> Ok(GGUFFileTypeMostlyBF16)
          [] OTHER -> Ok(GGUFFileTypeCount)

\* guessFileType with the ranking ts the sort produced
guessFileType(tis, ts) ==
    IF Len(tis) = 0 THEN Ok(GGUFFileTypeCount)
    ELSE IF Len(ts) = 0 THEN Ok(GGUFFileTypeCount)
    ELSE GuessSwitch(ts)

(***************************************************************************)
(* GGUFFile.Model (part_000, 105-172).  ts is the ranking guessFileType's  *)
(* sort produces, should it run.                                           *)
(***************************************************************************)
ModelKeys ==
    << Key_architecture, Key_quantization, Key_alignment, Key_name, Key_author,
       Key_url, Key_description, Key_license, Key_file_type >>

\* if v, ok := m[key]; ok { x = v.ValueString() }
ModelString(m, key) ==
    IF key \in DOMAIN m THEN ValueX(m[key], GGUFMetadataValueTypeString)
    ELSE Ok(<<>>)

\* A numeric field that is never read from the metadata
ModelNumericUnread(m, key, default) == Ok(default)

\* if v, ok := m[key]; ok { x = ValueNumeric[uint32](v) } else the default
ModelNumeric(m, key, default) ==
    IF key \in DOMAIN m THEN ValueNumeric("uint32", m[key]) ELSE Ok(default)

\* Lines 138-142: the alignment Model reports
ModelAlignment(m) == ModelNumeric(m, Key_alignment, 32)

\* Line 166
ModelLittleEndian(header) ==
    header.Version < GGUFVersionV3 \/ header.Magic = GGUFMagicGGUFLe

Model(g, ts) ==
    LET m == KVsIndex(g.Header.MetadataKV, ModelKeys).values
        fields ==
            << ModelString(m, Key_architecture),
               ModelNumeric(m, Key_quantization, 0),
               ModelAlignment(m),
               ModelString(m, Key_name),
               ModelString(m, Key_author),
               ModelString(m, Key_url),
               ModelString(m, Key_description),
               ModelString(m, Key_license),
               ModelNumeric(m, Key_file_type, GGUFFileTypeCount) >>
        bad == { i \in 1 .. Len(fields) : fields[i].kind # "ok" }
        first == CHOOSE i \in bad : \A j \in bad : i <= j
        guess == IF fields[9].v >= GGUFFileTypeCount
                 THEN guessFileType(g.TensorInfos, ts)
                 ELSE Ok(fields[9].v)
    IN  IF bad # {} THEN fields[first]
        ELSE IF guess.kind # "ok" THEN guess
        ELSE Ok([ Architecture |-> fields[1].v,
                  QuantizationVersion |-> fields[2].v,
                  Alignment |-> fields[3].v,
                  Name |-> fields[4].v,
                  Author |-> fields[5].v,
                  URL |-> fields[6].v,
                  Description |-> fields[7].v,
                  License |-> fields[8].v,
                  FileType |-> guess.v,
                  LittleEndian |-> ModelLittleEndian(g.Header),
                  Size |-> g.ModelSize,
                  Parameters |-> g.ModelParameters,
                  BitsPerWeight |-> g.ModelBitsPerWeight ])

(***************************************************************************)
(* The end of parseGGUFFile (file.go, 374-407): padding, tensor data       *)
(* offset, model size, parameters, bits per weight.                        *)
(***************************************************************************)
\* Lines 385-388: 32, or the general.alignment entry read with ValueUint32
ParseAlignment(kvs) ==
    Bind(KVsGet(kvs, Key_alignment), LAMBDA g :
        IF g.found THEN ValueX(g.value, GGUFMetadataValueTypeUint32) ELSE Ok(32))

\* Line 389 without the padding: the tensor data starts where the tensor
\* infos end
ParsePaddingNone(a, pds) == Ok(0)

\* Line 389: int64(ag) - (pds % int64(ag)); the remainder by 0 panics
ParsePadding(a, pds) ==
    IF a = 0 THEN Panic("integer divide by zero") ELSE Ok(a - (pds % a))

\* GGUFBytesScalar(x) of an int64 x: a negative x wraps to 2^64 + x
BytesScalar(x) == IF x >= 0 THEN x ELSE Saturated

\* Lines 402-404: the float quotient, kept as numerator and denominator
BitsPerWeight(size, params) ==
    IF params # 0 THEN [num |-> SatMul(size, 8), den |-> params]
    ELSE [num |-> 0, den |-> 1]

\* The fields of gf set by lines 389-404
WithSizes(g, pad, pds, size0) ==
    LET size == BytesScalar(size0 - (pds + pad))
        params == TensorInfosElements(g.TensorInfos)
    IN  [ g EXCEPT !.Padding = pad,
                   !.TensorDataStartOffset = pds + pad,
                   !.ModelSize = size,
                   !.ModelParameters = params,
                   !.ModelBitsPerWeight = BitsPerWeight(size, params) ]

\* The zero GGUFFile of line 304
ZeroFile ==
    [ Header |-> [ Magic |-> 0, Version |-> 0, TensorCount |-> 0,
                   MetadataKVCount |-> 0, MetadataKV |-> <<>> ],
      TensorInfos |-> <<>>,
      Padding |-> 0,
      TensorDataStartOffset |-> 0,
      ModelSize |-> 0,
      ModelParameters |-> 0,
      ModelBitsPerWeight |-> [num |-> 0, den |-> 1] ]

\* The step of parseGGUFFile from line 374 to its return
ComputePadding ==
    /\ pc = "padding"
    /\ Bind(ParseAlignment(gf.Header.MetadataKV), LAMBDA a :
           IF a.kind # "ok"
           THEN /\ ag' = 32
                /\ gf' = gf
                /\ pc' = "panic"
                /\ err' = a.msg
           ELSE Bind(ParsePadding(a.v, pos), LAMBDA p :
                    IF p.kind # "ok"
                    THEN /\ ag' = a.v
                         /\ gf' = gf
                         /\ pc' = "panic"
                         /\ err' = p.msg
                    ELSE /\ ag' = a.v
                         /\ gf' = WithSizes(gf, p.v, pos, s)
                         /\ pc' = "done"
                         /\ err' = ""))
    /\ UNCHANGED <<inp, f, s, o, pos, bo, ret>>

(***************************************************************************)
(* The byte source and the primitive readers of _GGUFReader (file.go,      *)
(* 1160-1234, 1347-1369).  A reader is rd = [f, v, bo, o]; a read at       *)
(* cursor p returns [kind, v, msg, pos], pos the cursor it leaves.         *)
(***************************************************************************)
ROk(v, p) == [kind |-> "ok", v |-> v, msg |-> "", pos |-> p]
RErr(m, p) == [kind |-> "err", v |-> 0, msg |-> m, pos |-> p]
RPanic(m, p) == [kind |-> "panic", v |-> 0, msg |-> m, pos |-> p]
\* fmt.Errorf(prefix + ": %w", err) around a failed read; a panic passes
Wrap(prefix, r) == IF r.kind = "err" THEN [r EXCEPT !.msg = prefix \o ": " \o r.msg] ELSE r

\* The unsigned value of bytes given least significant first
RECURSIVE UVal(_)
UVal(bs) ==
    IF Len(bs) = 0 THEN 0
    ELSE LET hi == UVal(Tail(bs))
         IN  IF hi > (Saturated - Head(bs)) \div 256 THEN Saturated
             ELSE hi * 256 + Head(bs)

\* The two's complement value of bytes given least significant first
SVal(bs) ==
    IF bs[Len(bs)] < 128 THEN UVal(bs)
    ELSE LET m == UVal([i \in 1 .. Len(bs) |-> 255 - bs[i]])
         IN  IF m = Saturated THEN 0 - Saturated ELSE 0 - m - 1

Reverse(bs) == [i \in 1 .. Len(bs) |-> bs[Len(bs) + 1 - i]]

\* The bytes of a field in least-significant-first order under byte order b
Ordered(bs, b) == IF b = "LE" THEN bs ELSE Reverse(bs)

\* binary.Read of n bytes at p (io.ReadFull): all n bytes or an error
ReadFull(rd, p, n) ==
    IF p + n <= Len(rd.f) THEN ROk(SubSeq(rd.f, p + 1, p + n), p + n)
    ELSE IF p >= Len(rd.f) THEN RErr("EOF", p)
    ELSE RErr("unexpected EOF", Len(rd.f))

\* binary.Read(rd.f, rd.bo, &v) of a field of n bytes decoded as `how`
BinaryRead(rd, p, n, how) ==
    Bind(ReadFull(rd, p, n), LAMBDA r :
        IF r.kind # "ok" THEN r
        ELSE Bind(Ordered(r.v, rd.bo), LAMBDA bs :
                 ROk(CASE how = "u" -> UVal(bs)
                       [] how = "s" -> SVal(bs)
                       [] how = "f32" -> UVal(bs)
                       [] how = "f64" -> [ hi |-> UVal(SubSeq(bs, 5, 8)),
                                           lo |-> UVal(SubSeq(bs, 1, 4)) ],
                     r.pos)))

\* ReadUint8 .. ReadFloat64: the read, its error wrapped as "read <name>"
ReadFixed(rd, p, n, how, name) == Wrap("read " \o name, BinaryRead(rd, p, n, how))

ReadUint8(rd, p) == ReadFixed(rd, p, 1, "u", "uint8")
ReadInt8(rd, p) == ReadFixed(rd, p, 1, "s", "int8")
ReadUint16(rd, p) == ReadFixed(rd, p, 2, "u", "uint16")
ReadInt16(rd, p) == ReadFixed(rd, p, 2, "s", "int16")
ReadUint32(rd, p) == ReadFixed(rd, p, 4, "u", "uint32")
ReadInt32(rd, p) == ReadFixed(rd, p, 4, "s", "int32")
ReadFloat32(rd, p) == ReadFixed(rd, p, 4, "f32", "float32")
ReadUint64(rd, p) == ReadFixed(rd, p, 8, "u", "uint64")
ReadInt64(rd, p) == ReadFixed(rd, p, 8, "s", "int64")
ReadFloat64(rd, p) == ReadFixed(rd, p, 8, "f64", "float64")

\* ReadUint64FromUint32 (1207-1210)
ReadUint64FromUint32(rd, p) == ReadUint32(rd, p)

\* ReadBool (1228-1234)
ReadBool(rd, p) ==
    Bind(ReadUint8(rd, p), LAMBDA b :
        IF b.kind # "ok" THEN Wrap("read bool", b) ELSE ROk(b.v # 0, b.pos))

\* A length read without the branch on the version: always 8 bytes
ReadLengthWide(rd, p) == ReadUint64(rd, p)

\* The version-conditional width of every count and length field: the
\* branch "if rd.v <= GGUFVersionV1" of lines 329, 339, 1238, 1258, 1283, 1464
ReadLength(rd, p) ==
    IF rd.v <= GGUFVersionV1 THEN ReadUint64FromUint32(rd, p)
    ELSE ReadUint64(rd, p)

(***************************************************************************)
(* Strings (file.go, 1236-1271).                                           *)
(***************************************************************************)
WhiteSpace == {9, 10, 11, 12, 13, 32}

\* bytes.TrimSpace
RECURSIVE TrimLeft(_)
TrimLeft(b) ==
    IF Len(b) > 0 /\ Head(b) \in WhiteSpace THEN TrimLeft(Tail(b)) ELSE b

RECURSIVE TrimRight(_)
TrimRight(b) ==
    IF Len(b) > 0 /\ b[Len(b)] \in WhiteSpace
    THEN TrimRight(SubSeq(b, 1, Len(b) - 1)) ELSE b

TrimSpace(b) == TrimRight(TrimLeft(b))

\* rd.f.Read(b) with len(b) = l at cursor p.  An *os.File (o.MMap unset)
\* returns at once for l = 0; an io.SectionReader (o.MMap set, line 224)
\* reports EOF whenever the cursor is at the end.  Both read what is left
\* when less than l is left, without an error; the rest of the buffer,
\* whatever bytex.GetBytes left in it, is not modelled.
SourceRead(rd, p, l) ==
    IF ~rd.o.MMap /\ l = 0 THEN ROk(<<>>, p)
    ELSE IF p >= Len(rd.f) THEN RErr("EOF", p)
    ELSE LET n == IF p + l <= Len(rd.f) THEN l ELSE Len(rd.f) - p
         IN  ROk(SubSeq(rd.f, p + 1, p + n), p + n)

\* rd.f.Seek(n, io.SeekCurrent) for n >= 0: it never fails, also past the end
SeekCurrent(p, n) == SatAdd(p, n)

\* _GGUFReader.ReadString; a length the model cannot tell from 2^64-1 makes
\* the allocation of the buffer abort
ReadString(rd, p) ==
    Bind(ReadLength(rd, p), LAMBDA l :
        IF l.kind # "ok" THEN Wrap("read string length", l)
        ELSE IF l.v = Saturated THEN RPanic("makeslice: len out of range", l.pos)
        ELSE Bind(SourceRead(rd, l.pos, l.v), LAMBDA b :
                 IF b.kind # "ok" THEN Wrap("read string", b)
                 ELSE ROk(TrimSpace(b.v), b.pos)))

\* _GGUFReader.SkipReadingString
SkipReadingString(rd, p) ==
    Bind(ReadLength(rd, p), LAMBDA l :
        IF l.kind # "ok" THEN Wrap("read string length", l)
        ELSE ROk(0, SeekCurrent(l.pos, l.v)))

(***************************************************************************)
(* Metadata values (file.go, 1273-1345 and 1371-1411).                     *)
(***************************************************************************)
\* The width of an item in the skip switch of ReadArray (lines 1316-1323);
\* 0 for a type the switch has no fixed width for
SkipWidth(t) ==
    CASE t \in { GGUFMetadataValueTypeUint8, GGUFMetadataValueTypeInt8,
                 GGUFMetadataValueTypeBool } -> 1
      [] t \in { GGUFMetadataValueTypeUint16, GGUFMetadataValueTypeInt16 } -> 2
      [] t \in { GGUFMetadataValueTypeUint32, GGUFMetadataValueTypeInt32,
                 GGUFMetadataValueTypeFloat32 } -> 4
      [] t \in { GGUFMetadataValueTypeUint64, GGUFMetadataValueTypeInt64,
                 GGUFMetadataValueTypeFloat64 } -> 8
      [] OTHER -> 0

\* The loop of lines 1325-1329
RECURSIVE SkipStrings(_, _, _, _)
SkipStrings(rd, p, i, n) ==
    IF i >= n THEN ROk(0, p)
    ELSE Bind(SkipReadingString(rd, p), LAMBDA r :
             IF r.kind # "ok" THEN Wrap("seek array[string] " \o ToString(i), r)
             ELSE SkipStrings(rd, r.pos, i + 1, n))

\* Lines 1315-1336: the cursor moved past the items without reading them
SkipItems(rd, p, t, n) ==
    IF SkipWidth(t) # 0 THEN ROk(0, SeekCurrent(p, SatMul(n, SkipWidth(t))))
    ELSE IF t = GGUFMetadataValueTypeString THEN SkipStrings(rd, p, 0, n)
    ELSE RPanic("invalid type", p)

ArrayValue(t, n, items, start, size) ==
    [Type |-> t, Len |-> n, Array |-> items, StartOffset |-> start, Size |-> size]

RECURSIVE ReadValue(_, _, _)
RECURSIVE ReadItems(_, _, _, _, _, _)
RECURSIVE ReadArray(_, _)

\* The loop of lines 1299-1304
ReadItems(rd, p, t, i, n, acc) ==
    IF i >= n THEN ROk(acc, p)
    ELSE Bind(ReadValue(rd, p, t), LAMBDA r :
             IF r.kind # "ok" THEN Wrap("read array item " \o ToString(i), r)
             ELSE ReadItems(rd, r.pos, t, i + 1, n, Append(acc, r.v)))

\* _GGUFReader.ReadArray
ReadArray(rd, p) ==
    Bind(ReadFixed(rd, p, 4, "u", "array item type"), LAMBDA t :
    IF t.kind # "ok" THEN t ELSE
    Bind(ReadLength(rd, t.pos), LAMBDA n :
    IF n.kind # "ok" THEN Wrap("read array length", n)
    ELSE IF ~rd.o.SkipLargeMetadata
    THEN IF n.v = Saturated THEN RPanic("makeslice: len out of range", n.pos)
         ELSE Bind(ReadItems(rd, n.pos, t.v, 0, n.v, <<>>), LAMBDA items :
                  IF items.kind # "ok" THEN items
                  ELSE ROk(ArrayValue(t.v, n.v, items.v, p, items.pos - n.pos),
                           items.pos))
    ELSE Bind(SkipItems(rd, n.pos, t.v, n.v), LAMBDA sk :
             IF sk.kind = "err" THEN
                 IF t.v = GGUFMetadataValueTypeString THEN sk
                 ELSE Wrap("seek array end", sk)
             ELSE IF sk.kind = "panic" THEN sk
             ELSE ROk(ArrayValue(t.v, n.v, <<>>, p, sk.pos - n.pos), sk.pos))))

\* _GGUFReader.ReadValue: the value as a Go value of the reader's type
ReadValue(rd, p, vt) ==
    IF vt >= GGUFMetadataValueTypeCount THEN RErr("invalid type", p)
    ELSE Bind(CASE vt = GGUFMetadataValueTypeUint8 -> ReadUint8(rd, p)
                [] vt = GGUFMetadataValueTypeInt8 -> ReadInt8(rd, p)
                [] vt = GGUFMetadataValueTypeUint16 -> ReadUint16(rd, p)
                [] vt = GGUFMetadataValueTypeInt16 -> ReadInt16(rd, p)
                [] vt = GGUFMetadataValueTypeUint32 -> ReadUint32(rd, p)
                [] vt = GGUFMetadataValueTypeInt32 -> ReadInt32(rd, p)
                [] vt = GGUFMetadataValueTypeFloat32 -> ReadFloat32(rd, p)
                [] vt = GGUFMetadataValueTypeBool -> ReadBool(rd, p)
                [] vt = GGUFMetadataValueTypeString -> ReadString(rd, p)
                [] vt = GGUFMetadataValueTypeArray -> ReadArray(rd, p)
                [] vt = GGUFMetadataValueTypeUint64 -> ReadUint64(rd, p)
                [] vt = GGUFMetadataValueTypeInt64 -> ReadInt64(rd, p)
                [] vt = GGUFMetadataValueTypeFloat64 -> ReadFloat64(rd, p),
              LAMBDA r :
                IF r.kind # "ok" THEN r
                ELSE ROk(GoVal(GoTypeOf(vt), r.v), r.pos))

\* _GGUFMetadataReader.Read (file.go, 1417-1440)
MetadataRead(rd, p) ==
    Bind(ReadString(rd, p), LAMBDA k :
    IF k.kind # "ok" THEN Wrap("read key", k) ELSE
    Bind(ReadUint32(rd, k.pos), LAMBDA vt :
    IF vt.kind # "ok" THEN Wrap("read value type", vt)
    ELSE IF vt.v >= GGUFMetadataValueTypeCount
    THEN RErr("invalid value type", vt.pos)
    ELSE Bind(ReadValue(rd, vt.pos, vt.v), LAMBDA v :
             IF v.kind # "ok" THEN Wrap("read value", v)
             ELSE ROk([Key |-> k.v, ValueType |-> vt.v, Value |-> v.v], v.pos))))

(***************************************************************************)
(* Tensor infos (file.go, 1446-1491).                                      *)
(***************************************************************************)
\* The loop of lines 1463-1472
RECURSIVE ReadDimensions(_, _, _, _, _)
ReadDimensions(rd, p, i, n, acc) ==
    IF i >= n THEN ROk(acc, p)
    ELSE Bind(ReadLength(rd, p), LAMBDA r :
             IF r.kind # "ok" THEN Wrap("read dimension " \o ToString(i), r)
             ELSE ReadDimensions(rd, r.pos, i + 1, n, Append(acc, r.v)))

\* _GGUFTensorInfoReader.Read
TensorInfoRead(rd, p) ==
    Bind(ReadString(rd, p), LAMBDA name :
    IF name.kind # "ok" THEN Wrap("read name", name) ELSE
    Bind(ReadUint32(rd, name.pos), LAMBDA nd :
    IF nd.kind # "ok" THEN Wrap("read n dimensions", nd) ELSE
    Bind(ReadDimensions(rd, nd.pos, 0, nd.v, <<>>), LAMBDA dims :
    IF dims.kind # "ok" THEN dims ELSE
    Bind(ReadUint32(rd, dims.pos), LAMBDA t :
    IF t.kind # "ok" THEN Wrap("read type", t)
    ELSE IF t.v >= GGMLTypeCount THEN RErr("invalid type", t.pos) ELSE
    Bind(ReadUint64(rd, t.pos), LAMBDA off :
    IF off.kind # "ok" THEN Wrap("read offset", off)
    ELSE ROk([ Name |-> name.v, NDimensions |-> nd.v, Dimensions |-> dims.v,
               Type |-> t.v, Offset |-> off.v, StartOffset |-> p ],
             off.pos))))))

(***************************************************************************)
(* parseGGUFFile (file.go, 303-407), a step at a time.  pc is "magic",     *)
(* "version", "tensorCount", "kvCount", "kvs", "kv", "tis", "ti",          *)
(* "padding", and at the end "done" (a file is returned), "err" (nil and   *)
(* the error err) or "panic".                                              *)
(***************************************************************************)
Reader == [f |-> f, v |-> gf.Header.Version, bo |-> bo, o |-> o]

\* A failed read that does not return: the error is kept and the decode
\* goes on from the cursor the read left
FailAndGoOn(r, prefix) ==
    /\ pc' = IF r.kind = "panic" THEN "panic" ELSE pc
    /\ err' = IF r.kind = "panic" THEN r.msg ELSE prefix \o ": " \o r.msg
    /\ pos' = r.pos
    /\ UNCHANGED <<gf, bo>>

\* What a failed read does to the state: return nil, err (or abort)
Fail(r, prefix) ==
    /\ pc' = IF r.kind = "panic" THEN "panic" ELSE "err"
    /\ err' = IF r.kind = "panic" THEN r.msg ELSE prefix \o ": " \o r.msg
    /\ pos' = r.pos
    /\ UNCHANGED <<gf, bo>>

LegacyMagics == {GGUFMagicGGML, GGUFMagicGGMF, GGUFMagicGGJT}

\* The switch on the magic without line 318: the byte order never changes
ClassifyMagicKeepOrder(m) ==
    CASE m \in LegacyMagics -> [go |-> FALSE, err |-> "unsupported format", bo |-> "LE"]
      [] m \in {GGUFMagicGGUFLe, GGUFMagicGGUFBe} -> [go |-> TRUE, err |-> "", bo |-> "LE"]
      [] OTHER -> [go |-> FALSE, err |-> "invalid GGUF format", bo |-> "LE"]

\* Lines 311-319: what the switch on the magic decides.  The text of the
\* "unsupported format" error goes on with the name of the magic.
ClassifyMagic(m) ==
    CASE m \in LegacyMagics -> [go |-> FALSE, err |-> "unsupported format", bo |-> "LE"]
      [] m = GGUFMagicGGUFLe -> [go |-> TRUE, err |-> "", bo |-> "LE"]
      [] m = GGUFMagicGGUFBe -> [go |-> TRUE, err |-> "", bo |-> "BE"]
      [] OTHER -> [go |-> FALSE, err |-> "invalid GGUF format", bo |-> "LE"]

\* Lines 307-319
ReadMagic ==
    /\ pc = "magic"
    /\ Bind(BinaryRead([Reader EXCEPT !.bo = "LE"], pos, 4, "u"), LAMBDA r :
           IF r.kind # "ok" THEN Fail(r, "read magic")
           ELSE Bind(ClassifyMagic(r.v), LAMBDA c :
                    /\ gf' = [gf EXCEPT !.Header.Magic = r.v]
                    /\ pos' = r.pos
                    /\ bo' = c.bo
                    /\ pc' = IF c.go THEN "version" ELSE "err"
                    /\ err' = c.err))
    /\ UNCHANGED <<inp, f, s, o, ag, ret>>

\* Lines 321-326
ReadVersion ==
    /\ pc = "version"
    /\ Bind(BinaryRead(Reader, pos, 4, "u"), LAMBDA r :
           IF r.kind # "ok" THEN Fail(r, "read version")
           ELSE /\ gf' = [gf EXCEPT !.Header.Version = r.v]
                /\ pos' = r.pos
                /\ pc' = "tensorCount"
                /\ UNCHANGED <<bo, err>>)
    /\ UNCHANGED <<inp, f, s, o, ag, ret>>

\* Lines 328-336
ReadTensorCount ==
    /\ pc = "tensorCount"
    /\ Bind(ReadLength(Reader, pos), LAMBDA r :
           IF r.kind # "ok" THEN Fail(r, "read tensor count")
           ELSE /\ gf' = [gf EXCEPT !.Header.TensorCount = r.v]
                /\ pos' = r.pos
                /\ pc' = "kvCount"
                /\ UNCHANGED <<bo, err>>)
    /\ UNCHANGED <<inp, f, s, o, ag, ret>>

\* Lines 338-346
ReadMetadataKVCount ==
    /\ pc = "kvCount"
    /\ Bind(ReadLength(Reader, pos), LAMBDA r :
           IF r.kind # "ok" THEN Fail(r, "read metadata kv count")
           ELSE /\ gf' = [gf EXCEPT !.Header.MetadataKVCount = r.v]
                /\ pos' = r.pos
                /\ pc' = "kvs"
                /\ UNCHANGED <<bo, err>>)
    /\ UNCHANGED <<inp, f, s, o, ag, ret>>

\* make(GGUFMetadataKVs, n) / make(GGUFTensorInfos, n): a count the model
\* cannot tell from 2^64-1 aborts the allocation
MakeList(n, loop, after) ==
    /\ pc' = IF n = Saturated THEN "panic" ELSE IF n = 0 THEN after ELSE loop
    /\ err' = IF n = Saturated THEN "makeslice: len out of range" ELSE err
    /\ UNCHANGED <<inp, f, s, o, pos, bo, gf, ag, ret>>

\* Line 351
BeginMetadataKV ==
    /\ pc = "kvs"
    /\ MakeList(gf.Header.MetadataKVCount, "kv", "tis")

\* One turn of the loop of lines 352-357, and line 358 after the last
ReadMetadataKV ==
    /\ pc = "kv"
    /\ Bind(MetadataRead(Reader, pos), LAMBDA r :
           IF r.kind # "ok"
           THEN Fail(r, "read metadata kv " \o ToString(Len(gf.Header.MetadataKV)))
           ELSE /\ gf' = [gf EXCEPT !.Header.MetadataKV = Append(@, r.v)]
                /\ pos' = r.pos
                /\ pc' = IF Len(gf.Header.MetadataKV) + 1 = gf.Header.MetadataKVCount
                         THEN "tis" ELSE "kv"
                /\ UNCHANGED <<bo, err>>)
    /\ UNCHANGED <<inp, f, s, o, ag, ret>>

\* Line 364
BeginTensorInfos ==
    /\ pc = "tis"
    /\ MakeList(gf.Header.TensorCount, "ti", "padding")

\* One turn of the loop of lines 365-370, and line 371 after the last
ReadTensorInfo ==
    /\ pc = "ti"
    /\ Bind(TensorInfoRead(Reader, pos), LAMBDA r :
           IF r.kind # "ok"
           THEN Fail(r, "read tensor info " \o ToString(Len(gf.TensorInfos)))
           ELSE /\ gf' = [gf EXCEPT !.TensorInfos = Append(@, r.v)]
                /\ pos' = r.pos
                /\ pc' = IF Len(gf.TensorInfos) + 1 = gf.Header.TensorCount
                         THEN "padding" ELSE "ti"
                /\ UNCHANGED <<bo, err>>)
    /\ UNCHANGED <<inp, f, s, o, ag, ret>>

Parse ==
    \/ ReadMagic
    \/ ReadVersion
    \/ ReadTensorCount
    \/ ReadMetadataKVCount
    \/ BeginMetadataKV
    \/ ReadMetadataKV
    \/ BeginTensorInfos
    \/ ReadTensorInfo
    \/ ComputePadding

(***************************************************************************)
(* The inputs: byte sources built from a description after the layout of   *)
(* the format.  A description is [magic, order, version, kvs, tis, tail]:  *)
(* kvs are [key, vt, val], tis are [name, dims, type, offset].  A val is a *)
(* number (a scalar tag; a bit pattern for a float), a string, or          *)
(* [et, items] for an array of items of tag et.                            *)
(***************************************************************************)
\* Byte i (0 the least significant) of a number below 2^31
ByteOf(n, i) == IF i >= 4 THEN 0 ELSE (n \div Pow2(8 * i)) % 256

\* n in w bytes, two's complement for n < 0, least significant first
EncLE(n, w) ==
    IF n >= 0 THEN [i \in 1 .. w |-> ByteOf(n, i - 1)]
    ELSE [i \in 1 .. w |-> 255 - ByteOf(0 - n - 1, i - 1)]

EncInt(n, w, order) == IF order = "LE" THEN EncLE(n, w) ELSE Reverse(EncLE(n, w))

\* The width the format gives a count or length field
LengthWidth(version) == IF version <= 1 THEN 4 ELSE 8

EncLength(n, d) == EncInt(n, LengthWidth(d.version), d.order)

EncString(str, d) == EncLength(Len(str), d) \o str

RECURSIVE Flatten(_)
Flatten(ss) == IF Len(ss) = 0 THEN <<>> ELSE Head(ss) \o Flatten(Tail(ss))

RECURSIVE EncValue(_, _, _)
EncValue(vt, val, d) ==
    CASE vt = GGUFMetadataValueTypeString -> EncString(val, d)
      [] vt = GGUFMetadataValueTypeBool -> <<val>>
      [] vt = GGUFMetadataValueTypeFloat64 ->
            IF d.order = "LE" THEN EncLE(val.lo, 4) \o EncLE(val.hi, 4)
            ELSE Reverse(EncLE(val.lo, 4) \o EncLE(val.hi, 4))
      [] vt = GGUFMetadataValueTypeArray ->
            EncInt(val.et, 4, d.order) \o EncLength(Len(val.items), d)
            \o Flatten([i \in 1 .. Len(val.items) |-> EncValue(val.et, val.items[i], d)])
      [] OTHER -> EncInt(val, SkipWidth(vt), d.order)

EncKV(kv, d) == EncString(kv.key, d) \o EncInt(kv.vt, 4, d.order) \o EncValue(kv.vt, kv.val, d)

EncTensorInfo(ti, d) ==
    EncString(ti.name, d) \o EncInt(Len(ti.dims), 4, d.order)
    \o Flatten([i \in 1 .. Len(ti.dims) |-> EncLength(ti.dims[i], d)])
    \o EncInt(ti.type, 4, d.order) \o EncInt(ti.offset, 8, d.order)

\* The file up to the end of the tensor infos
EncHead(d) ==
    EncLE(d.magic, 4) \o EncInt(d.version, 4, d.order)
    \o EncLength(Len(d.tis), d) \o EncLength(Len(d.kvs), d)
    \o Flatten([i \in 1 .. Len(d.kvs) |-> EncKV(d.kvs[i], d)])
    \o Flatten([i \in 1 .. Len(d.tis) |-> EncTensorInfo(d.tis[i], d)])

\* The whole file: d.tail bytes of padding and tensor data follow
EncFile(d) == EncHead(d) \o [i \in 1 .. d.tail |-> 0]

Str_a == <<97>>
Str_bc == <<98, 99>>
Str_t == <<116>>
Str_output == <<111, 117, 116, 112, 117, 116>>

(***************************************************************************)
(* The decode specification: parseGGUFFile run on byte sources drawn from  *)
(* three families: well-formed files, files with another magic, and        *)
(* truncations of a well-formed file.  inp holds the selectors.            *)
(***************************************************************************)
\* versions 0 .. MaxVersion are written into the header
MaxVersion == 3
\* at most this many tensor infos in a decoded file
MaxFileTensors == 2
\* the bytes that follow the tensor infos: none or this many
MaxTail == 40

\* The byte order a writer of the format uses under a magic
OrderOf(magic) == IF magic = GGUFMagicGGUFBe THEN "BE" ELSE "LE"

KVUint8 == [key |-> Str_a, vt |-> GGUFMetadataValueTypeUint8, val |-> 7]
KVInt32 == [key |-> Str_bc, vt |-> GGUFMetadataValueTypeInt32, val |-> 0 - 2]
KVString == [key |-> Str_a, vt |-> GGUFMetadataValueTypeString, val |-> Str_bc]
KVFloat32 == [key |-> Str_t, vt |-> GGUFMetadataValueTypeFloat32, val |-> 1069547520]
KVFloat64 ==
    [key |-> Str_t, vt |-> GGUFMetadataValueTypeFloat64, val |-> [hi |-> 1074003968, lo |-> 0]]
KVBool == [key |-> Str_bc, vt |-> GGUFMetadataValueTypeBool, val |-> 1]
KVArrayUint16 ==
    [key |-> Str_bc, vt |-> GGUFMetadataValueTypeArray,
     val |-> [et |-> GGUFMetadataValueTypeUint16, items |-> <<1, 515>>]]
KVArrayString ==
    [key |-> Str_a, vt |-> GGUFMetadataValueTypeArray,
     val |-> [et |-> GGUFMetadataValueTypeString, items |-> <<Str_a, Str_bc>>]]
KVArrayArray ==
    [key |-> Str_a, vt |-> GGUFMetadataValueTypeArray,
     val |-> [et |-> GGUFMetadataValueTypeArray,
              items |-> << [et |-> GGUFMetadataValueTypeUint8, items |-> <<1, 2>>] >>]]
KVAlignment(vt, n) == [key |-> Key_alignment, vt |-> vt, val |-> n]

\* The metadata lists the files carry
KVLists ==
    << <<>>,
       <<KVUint8>>,
       <<KVString, KVInt32>>,
       <<KVArrayUint16, KVFloat32>>,
       <<KVArrayString, KVBool>>,
       <<KVFloat64, KVArrayArray>>,
       <<KVAlignment(GGUFMetadataValueTypeUint32, 16), KVString>>,
       <<KVUint8, KVAlignment(GGUFMetadataValueTypeUint32, 0)>>,
       <<KVAlignment(GGUFMetadataValueTypeUint64, 64)>> >>

\* The i-th tensor info of a file: "blk.<i>.w", 4 x (i + 1) of F32
FileTensor(i) ==
    [ name |-> Str_blk \o <<Dot, 48 + i, Dot, 119>>, dims |-> <<4, i + 1>>,
      type |-> GGMLTypeF32, offset |-> 32 * (i - 1) ]

\* The minimal file: one entry general.alignment = uint32 16, one tensor
\* "t" of 4 F32 elements at offset 0, then the padding and 16 bytes of data
MinimalDesc ==
    [ magic |-> GGUFMagicGGUFLe, order |-> "LE", version |-> GGUFVersionV3,
      kvs |-> <<KVAlignment(GGUFMetadataValueTypeUint32, 16)>>,
      tis |-> << [name |-> Str_t, dims |-> <<4>>, type |-> GGMLTypeF32, offset |-> 0] >>,
      tail |-> 6 + 16 ]

\* Entries with a tag outside the recognized range: as the value type, as
\* the element type of an array of n items, and as the element type of an
\* array of n items that is the one item of an array of arrays.  An item of
\* such a type takes no bytes in the file.
KVBadType(tag) == [key |-> Str_a, vt |-> tag, val |-> 0]
KVBadArray(tag, n) ==
    [key |-> Str_a, vt |-> GGUFMetadataValueTypeArray,
     val |-> [et |-> tag, items |-> [k \in 1 .. n |-> 0]]]
KVBadNested(tag, n) ==
    [key |-> Str_a, vt |-> GGUFMetadataValueTypeArray,
     val |-> [et |-> GGUFMetadataValueTypeArray,
              items |-> << [et |-> tag, items |-> [k \in 1 .. n |-> 0]] >>]]

\* The tags outside the range that the files carry
BadTags == <<GGUFMetadataValueTypeCount, GGUFMetadataValueTypeCount + 86>>

\* The metadata lists of the files with such a tag: the entry, then a
\* well-formed one
BadTagLists ==
    LET Of(tag) == << <<KVBadType(tag), KVUint8>>,
                      <<KVBadArray(tag, 0), KVUint8>>,
                      <<KVBadArray(tag, 1), KVUint8>>,
                      <<KVBadNested(tag, 0), KVUint8>>,
                      <<KVBadNested(tag, 1), KVUint8>> >>
    IN  Of(BadTags[1]) \o Of(BadTags[2])

\* The description an input selects
Desc(i) ==
    IF i.family = "minimal" THEN MinimalDesc
    ELSE IF i.family = "tag" THEN
    [ magic |-> i.magic, order |-> OrderOf(i.magic), version |-> i.version,
      kvs |-> BadTagLists[i.kvsel], tis |-> [k \in 1 .. i.ntis |-> FileTensor(k)],
      tail |-> i.tail ]
    ELSE
    [ magic |-> i.magic, order |-> OrderOf(i.magic), version |-> i.version,
      kvs |-> KVLists[i.kvsel], tis |-> [k \in 1 .. i.ntis |-> FileTensor(k)],
      tail |-> i.tail ]

\* The byte source of an input: the file less its last i.cut bytes
Source(i) == LET file == EncFile(Desc(i)) IN SubSeq(file, 1, Len(file) - i.cut)

FileInputs ==
    [ family : {"file"}, magic : {GGUFMagicGGUFLe, GGUFMagicGGUFBe},
      version : 0 .. MaxVersion, kvsel : 1 .. Len(KVLists),
      ntis : 0 .. MaxFileTensors, tail : {0, MaxTail}, cut : {0},
      skip : BOOLEAN, mmap : BOOLEAN ]

MagicInputs ==
    [ family : {"magic"}, magic : LegacyMagics \cup {0, GGUFMagicGGUFLe + 1},
      version : {GGUFVersionV3}, kvsel : {1, 2}, ntis : {0}, tail : {0, MaxTail},
      cut : {0}, skip : {FALSE}, mmap : {FALSE} ]

CutBase ==
    [ family |-> "cut", magic |-> GGUFMagicGGUFLe, version |-> GGUFVersionV2,
      kvsel |-> 5, ntis |-> 1, tail |-> 0, cut |-> 0, skip |-> FALSE, mmap |-> FALSE ]

CutInputs ==
    { [CutBase EXCEPT !.cut = c, !.skip = k, !.mmap = m] :
        c \in 1 .. Len(EncFile(Desc(CutBase))), k \in BOOLEAN, m \in BOOLEAN }

MinimalInputs ==
    [ family : {"minimal"}, magic : {GGUFMagicGGUFLe}, version : {GGUFVersionV3},
      kvsel : {1}, ntis : {1}, tail : {6 + 16}, cut : {0},
      skip : BOOLEAN, mmap : BOOLEAN ]

TagInputs ==
    [ family : {"tag"}, magic : {GGUFMagicGGUFLe, GGUFMagicGGUFBe},
      version : {GGUFVersionV1, GGUFVersionV3}, kvsel : 1 .. Len(BadTagLists),
      ntis : {0, 1}, tail : {0}, cut : {0}, skip : BOOLEAN, mmap : BOOLEAN ]

Init ==
    /\ inp \in FileInputs \cup MagicInputs \cup CutInputs \cup MinimalInputs
               \cup TagInputs
    /\ f = Source(inp)
    /\ s = Len(f)
    /\ o = [SkipLargeMetadata |-> inp.skip, MMap |-> inp.mmap]
    /\ pos = 0
    /\ bo = "LE"
    /\ pc = "magic"
    /\ gf = ZeroFile
    /\ ag = 32
    /\ err = ""
    /\ ret = NoCall

Next == Parse

Spec == Init /\ [][Next]_vars

(***************************************************************************)
(* Properties of the decode specification.                                 *)
(***************************************************************************)
\* The magic has been read and classified
PastMagic == pc # "magic" /\ Len(f) >= 4

\* C8: the first four bytes are read little-endian as the magic.  A legacy
\* magic (GGML, GGMF, GGJT) ends the decode with "unsupported format", any
\* other unknown magic with "invalid GGUF format", and in both cases nothing
\* after the fourth byte is read.  Under the Le magic every later field is
\* decoded little-endian, under the Be magic big-endian: the version, the
\* counts and the tensor dimensions come out as they were written.
C8_MagicClassification ==
    PastMagic =>
        /\ gf.Header.Magic = inp.magic
        /\ inp.magic \in LegacyMagics =>
               pc = "err" /\ err = "unsupported format" /\ pos = 4
        /\ inp.magic \notin LegacyMagics \cup {GGUFMagicGGUFLe, GGUFMagicGGUFBe} =>
               pc = "err" /\ err = "invalid GGUF format" /\ pos = 4
        /\ inp.magic = GGUFMagicGGUFLe => bo = "LE"
        /\ inp.magic = GGUFMagicGGUFBe => bo = "BE"
        /\ (inp.family = "file" /\ pc # "version") =>
               gf.Header.Version = inp.version
        /\ (inp.family = "file" /\ pc \in {"padding", "done"}) =>
               /\ gf.Header.TensorCount = inp.ntis
               /\ gf.Header.MetadataKVCount = Len(KVLists[inp.kvsel])
               /\ \A i \in 1 .. inp.ntis :
                      gf.TensorInfos[i].Dimensions = FileTensor(i).dims

\* A big-endian file with tensors has been decoded to the end
C8_Witness ==
    /\ pc = "done"
    /\ inp.magic = GGUFMagicGGUFBe
    /\ inp.version = GGUFVersionV3
    /\ Len(gf.TensorInfos) = 2
    /\ gf.TensorInfos[2].Dimensions = <<4, 3>>

\* The number of length fields in the encoding of a value, and the number
\* of its other bytes
RECURSIVE LengthFields(_, _)
LengthFields(vt, val) ==
    CASE vt = GGUFMetadataValueTypeString -> 1
      [] vt = GGUFMetadataValueTypeArray ->
            LET RECURSIVE Sum(_)
                Sum(i) == IF i > Len(val.items) THEN 0
                          ELSE LengthFields(val.et, val.items[i]) + Sum(i + 1)
            IN  1 + Sum(1)
      [] OTHER -> 0

RECURSIVE OtherBytes(_, _)
OtherBytes(vt, val) ==
    CASE vt = GGUFMetadataValueTypeString -> Len(val)
      [] vt = GGUFMetadataValueTypeArray ->
            LET RECURSIVE Sum(_)
                Sum(i) == IF i > Len(val.items) THEN 0
                          ELSE OtherBytes(val.et, val.items[i]) + Sum(i + 1)
            IN  4 + Sum(1)
      [] OTHER -> SkipWidth(vt)

\* The size of a metadata entry and of a tensor info when a length field
\* takes w bytes
KVSize(kv, w) ==
    w + Len(kv.key) + 4 + OtherBytes(kv.vt, kv.val) + w * LengthFields(kv.vt, kv.val)

TensorInfoSize(ti, w) == w + Len(ti.name) + 4 + w * Len(ti.dims) + 4 + 8

RECURSIVE KVsSize(_, _)
KVsSize(kvs, w) ==
    IF Len(kvs) = 0 THEN 0 ELSE KVSize(Head(kvs), w) + KVsSize(Tail(kvs), w)

RECURSIVE TensorInfosSize(_, _)
TensorInfosSize(tis, w) ==
    IF Len(tis) = 0 THEN 0
    ELSE TensorInfoSize(Head(tis), w) + TensorInfosSize(Tail(tis), w)

\* Whether the decoded value v is the value val written under tag vt (the
\* items of an array only when they were materialized)
RECURSIVE ValueMatches(_, _, _)
ValueMatches(v, vt, val) ==
    /\ v.t = GoTypeOf(vt)
    /\ CASE vt = GGUFMetadataValueTypeBool -> v.v = (val # 0)
         [] vt = GGUFMetadataValueTypeArray ->
               /\ v.v.Type = val.et
               /\ v.v.Len = Len(val.items)
               /\ Len(v.v.Array) \in {0, Len(val.items)}
               /\ \A i \in 1 .. Len(v.v.Array) :
                      ValueMatches(v.v.Array[i], val.et, val.items[i])
         [] OTHER -> v.v = val

\* C9: the tensor count, the metadata count, every string length, every
\* array length and every dimension size take 4 bytes when the header's
\* version is at most 1 and 8 bytes when it is 2 or more.  So a well-formed
\* file is decoded without an error, the cursor after the k-th metadata
\* entry and after the k-th tensor info is where that width puts it, and
\* the counts, keys, values, names and dimensions are those written.
C9_VersionWidth ==
    inp.family = "file" =>
        LET w == IF inp.version <= 1 THEN 4 ELSE 8
            d == Desc(inp)
            nkv == Len(gf.Header.MetadataKV)
            nti == Len(gf.TensorInfos)
            afterKVs == 8 + 2 * w + KVsSize(SubSeq(d.kvs, 1, nkv), w)
        IN  /\ pc # "err"
            /\ pc = "kvCount" => (pos = 8 + w /\ gf.Header.TensorCount = inp.ntis)
            /\ pc = "kvs" =>
                   (pos = 8 + 2 * w /\ gf.Header.MetadataKVCount = Len(d.kvs))
            /\ pc \in {"kv", "tis"} => pos = afterKVs
            /\ pc \in {"ti", "padding", "done"} =>
                   pos = afterKVs + TensorInfosSize(SubSeq(d.tis, 1, nti), w)
            /\ \A i \in 1 .. nkv :
                   /\ gf.Header.MetadataKV[i].Key = d.kvs[i].key
                   /\ gf.Header.MetadataKV[i].ValueType = d.kvs[i].vt
                   /\ ValueMatches(gf.Header.MetadataKV[i].Value, d.kvs[i].vt,
                                   d.kvs[i].val)
            /\ \A i \in 1 .. nti :
                   /\ gf.TensorInfos[i].Name = d.tis[i].name
                   /\ gf.TensorInfos[i].Dimensions = d.tis[i].dims

\* A version-1 file with an array of strings, a bool and two tensors has
\* been decoded to the end, its items materialized
C9_Witness ==
    /\ pc = "done"
    /\ inp.version = GGUFVersionV1
    /\ inp.kvsel = 5
    /\ ~inp.skip
    /\ Len(gf.TensorInfos) = 2
    /\ pos = 8 + 8 + (4 + 1 + 4 + 4 + 4 + (4 + 1) + (4 + 2)) + (4 + 2 + 4 + 1)
             + 2 * (4 + 7 + 4 + 8 + 4 + 8)

\* C11: the minimal file (Le magic, version 3, one entry general.alignment
\* of type uint32 and value 16, one tensor "t" of one dimension of size 4 of
\* a 4-byte dense type at offset 0, padding, 16 bytes of data) is decoded
\* without a failure, and at the end Padding is the distance from the end of
\* the tensor info (offset 90) to the next multiple of 16 (96),
\* TensorDataStartOffset is 96, ModelSize is the file length less 96, which
\* is 16, ModelParameters is 4 and ModelBitsPerWeight is ModelSize * 8 / 4.
C11_MinimalFile ==
    inp.family = "minimal" =>
        /\ pc \notin {"err", "panic"}
        /\ pc = "done" =>
               /\ s = 112
               /\ pos = 90
               /\ ag = 16
               /\ gf.Header.Version = 3
               /\ gf.Header.TensorCount = 1
               /\ gf.Header.MetadataKVCount = 1
               /\ gf.Header.MetadataKV[1].Key = Key_alignment
               /\ gf.TensorInfos[1].Name = Str_t
               /\ gf.TensorInfos[1].Dimensions = <<4>>
               /\ gf.Padding = 6
               /\ gf.TensorDataStartOffset = 96
               /\ gf.TensorDataStartOffset % 16 = 0
               /\ gf.ModelSize = s - gf.TensorDataStartOffset
               /\ gf.ModelSize = 16
               /\ gf.ModelParameters = 4
               /\ gf.ModelBitsPerWeight = [num |-> gf.ModelSize * 8, den |-> 4]

\* The minimal file has been decoded to the end
C11_Witness ==
    /\ inp.family = "minimal"
    /\ pc = "done"
    /\ gf.ModelSize = 16
    /\ gf.Padding = 6

\* The place of a step in the order of parseGGUFFile
StepRank(c) ==
    CASE c = "magic" -> 0
      [] c = "version" -> 1
      [] c = "tensorCount" -> 2
      [] c = "kvCount" -> 3
      [] c = "kvs" -> 4
      [] c = "kv" -> 5
      [] c = "tis" -> 6
      [] c = "ti" -> 7
      [] c = "padding" -> 8
      [] OTHER -> 9

\* What every step of the decode does to the order of the steps
StepOrder ==
    \* a step is taken only while nothing has failed and nothing was returned
    /\ pc \notin {"err", "panic", "done"}
    /\ err = ""
    \* the source is the same and the cursor never goes back
    /\ f' = f
    /\ pos' >= pos
    \* a failure ends the decode; otherwise the next step in the order
    \* follows, or the next entry of the same list
    /\ \/ pc' \in {"err", "panic"}
       \/ StepRank(pc') > StepRank(pc)
       \/ /\ pc' = pc
          /\ pc = "kv"
          /\ Len(gf'.Header.MetadataKV) = Len(gf.Header.MetadataKV) + 1
          /\ SubSeq(gf'.Header.MetadataKV, 1, Len(gf.Header.MetadataKV))
                 = gf.Header.MetadataKV
          /\ gf'.TensorInfos = <<>>
       \/ /\ pc' = pc
          /\ pc = "ti"
          /\ Len(gf'.TensorInfos) = Len(gf.TensorInfos) + 1
          /\ SubSeq(gf'.TensorInfos, 1, Len(gf.TensorInfos)) = gf.TensorInfos
          /\ gf'.Header.MetadataKV = gf.Header.MetadataKV
    \* the counts are read before the lists, the metadata list is complete
    \* before the first tensor info, both are complete before the padding
    /\ pc' \in {"kv", "tis", "ti", "padding", "done"} =>
           /\ Len(gf'.Header.MetadataKV) <= gf'.Header.MetadataKVCount
           /\ Len(gf'.TensorInfos) <= gf'.Header.TensorCount
    /\ (pc' \in {"tis", "ti", "padding", "done"} \/ Len(gf'.TensorInfos) > 0) =>
           Len(gf'.Header.MetadataKV) = gf'.Header.MetadataKVCount
    /\ pc' \in {"padding", "done"} =>
           Len(gf'.TensorInfos) = gf'.Header.TensorCount
    /\ pc' \in {"magic", "version", "tensorCount", "kvCount", "kvs"} =>
           gf'.Header.MetadataKV = <<>> /\ gf'.TensorInfos = <<>>
    \* the padding is computed last and reads nothing
    /\ pc = "padding" => pos' = pos

\* C12: parseGGUFFile goes through its steps in one order: magic, version,
\* tensor count, metadata count, the MetadataKVCount metadata entries by
\* index, the TensorCount tensor infos by index, the padding.  No tensor
\* info is decoded before the last metadata entry, and once a step has
\* failed nothing more is read or sought on the source.
C12_SequentialOrder == [][StepOrder]_vars

\* A decode has stopped in the second metadata entry of a truncated file
C12_Witness ==
    /\ pc = "err"
    /\ inp.family = "cut"
    /\ Len(gf.Header.MetadataKV) = 1
    /\ gf.Header.MetadataKVCount = 2
    /\ gf.TensorInfos = <<>>

\* Whether the text str starts, or ends, with the text t
StartsWith(str, t) == Len(str) >= Len(t) /\ SubSeq(str, 1, Len(t)) = t
EndsWith(str, t) ==
    Len(str) >= Len(t) /\ SubSeq(str, Len(str) - Len(t) + 1, Len(str)) = t

\* The causes of a failed decode: the end of the source, and a tag outside
\* the recognized range
Causes == {"EOF", "unexpected EOF", "invalid type", "invalid value type"}

\* The text an error of the step at c starts with when the step is the
\* entry of index i of its list
StepName(c, i) ==
    CASE c = "magic" -> "read magic"
      [] c = "version" -> "read version"
      [] c = "tensorCount" -> "read tensor count"
      [] c = "kvCount" -> "read metadata kv count"
      [] c = "kv" -> "read metadata kv " \o ToString(i)
      [] c = "ti" -> "read tensor info " \o ToString(i)
      [] OTHER -> ""

\* A step that returns an error returns one that names the step (with the
\* index of the entry, for an entry of a list) and ends with the cause; a
\* rejected magic is its own cause
FailureNamed ==
    pc' = "err" =>
        \/ /\ pc = "magic"
           /\ err' \in {"invalid GGUF format", "unsupported format"}
        \/ /\ pc \in {"magic", "version", "tensorCount", "kvCount", "kv", "ti"}
           /\ StartsWith(err', StepName(pc, IF pc = "kv" THEN Len(gf.Header.MetadataKV)
                                              ELSE Len(gf.TensorInfos)) \o ": ")
           /\ \E c \in Causes : EndsWith(err', ": " \o c)

\* C13: a decode in which a step fails, by a short read or by a tag outside
\* the recognized range, returns nil and an error, it does not abort; the
\* error names the failing step, for an entry of the metadata list or of
\* the tensor info list with the 0-based index of the entry, and keeps the
\* cause at its end.
C13_FailedOutcome ==
    /\ [](inp.family \in {"cut", "magic", "tag"} => pc # "panic")
    /\ [](pc = "err" => err # "")
    /\ [][FailureNamed]_vars

\* C14: a metadata entry whose value-type tag is outside the recognized
\* range, and an array (also one nested in an array, of any length, also
\* length 0, with the items read or skipped) whose element-type tag is
\* outside it, make the decode return an error: the decode neither aborts
\* nor takes the entry into the metadata list.
C14_TagsRejected ==
    inp.family = "tag" =>
        /\ pc \notin {"panic", "done"}
        /\ gf.Header.MetadataKV = <<>>

\* C15: after a successful decode ModelSize is the length s of the source
\* less TensorDataStartOffset, as integers.
C15_ModelSize ==
    pc = "done" => gf.ModelSize = s - gf.TensorDataStartOffset

(***************************************************************************)
(* On-demand calls on the decoded file.                                    *)
(***************************************************************************)
\* gf.Model(): any of the rankings the sort of guessFileType may produce
CallModel ==
    /\ pc = "done"
    /\ ret = NoCall
    /\ \E ts \in Rankings(gf.TensorInfos) :
           ret' = [call |-> "Model", r |-> Model(gf, ts)]
    /\ UNCHANGED <<inp, f, s, o, pos, bo, pc, gf, ag, err>>

(***************************************************************************)
(* The padding specification: the end of parseGGUFFile (from line 374) at  *)
(* every cursor 0 .. MaxPds, the metadata holding no general.alignment     *)
(* entry or one of any integer type, alone or after another entry.         *)
(***************************************************************************)
\* the bytes of the source after the cursor
MaxData == 128

AlignmentValues == {0, 8, 16, 32}

\* The entry the decoder makes of a scalar written under tag vt
DecodedKV(key, vt, n) == [Key |-> key, ValueType |-> vt, Value |-> GoVal(GoTypeOf(vt), n)]

\* The tensor info the decoder makes of a description
DecodedTensor(ti, start) ==
    [ Name |-> ti.name, NDimensions |-> Len(ti.dims), Dimensions |-> ti.dims,
      Type |-> ti.type, Offset |-> ti.offset, StartOffset |-> start ]

PaddingInputs ==
    [ pds : 0 .. MaxPds, place : {"none"}, avt : {GGUFMetadataValueTypeUint32},
      aval : {32} ]
    \cup [ pds : 0 .. MaxPds, place : {"alone", "second"}, avt : IntegerValueTypes,
           aval : AlignmentValues ]

PaddingKVs(i) ==
    CASE i.place = "none" -> << DecodedKV(Str_a, GGUFMetadataValueTypeUint8, 7) >>
      [] i.place = "alone" -> << DecodedKV(Key_alignment, i.avt, i.aval) >>
      [] i.place = "second" ->
            << DecodedKV(Str_a, GGUFMetadataValueTypeUint32, 8),
               DecodedKV(Key_alignment, i.avt, i.aval) >>

InitPadding ==
    /\ inp \in PaddingInputs
    /\ f = <<>>
    /\ s = inp.pds + MaxData
    /\ o = [SkipLargeMetadata |-> FALSE, MMap |-> FALSE]
    /\ pos = inp.pds
    /\ bo = "LE"
    /\ pc = "padding"
    /\ gf = [ ZeroFile EXCEPT
                !.Header.Magic = GGUFMagicGGUFLe,
                !.Header.Version = GGUFVersionV3,
                !.Header.TensorCount = 1,
                !.Header.MetadataKVCount = Len(PaddingKVs(inp)),
                !.Header.MetadataKV = PaddingKVs(inp),
                !.TensorInfos = << DecodedTensor(FileTensor(1), 0) >> ]
    /\ ag = 32
    /\ err = ""
    /\ ret = NoCall

NextPadding == ComputePadding \/ CallModel

SpecPadding == InitPadding /\ [][NextPadding]_vars

\* C1: the tensor data start S is the end P of the tensor infos rounded up
\* to the alignment A: S >= P, S is a multiple of A, and S - P < A, also
\* when P is already a multiple of A.
C1_PaddingInvariant ==
    pc = "done" =>
        /\ gf.TensorDataStartOffset >= pos
        /\ gf.TensorDataStartOffset % ag = 0
        /\ gf.TensorDataStartOffset - pos < ag

\* C7: the alignment the decoder pads with is 32 when the metadata has no
\* general.alignment entry, and else that entry's value read as a number
\* whatever integer type it is stored as; it is the alignment Model reports.
C7_AlignmentSelection ==
    (pc # "padding" /\ inp.aval # 0) =>
        /\ pc = "done"
        /\ ag = IF inp.place = "none" THEN 32 ELSE inp.aval
        /\ ret # NoCall => (ret.r.kind = "ok" /\ ret.r.v.Alignment = ag)

(***************************************************************************)
(* The tensor specification: a decoded file with one tensor of every shape *)
(* of up to MaxDims dimensions and of a dense or a block type, alone or    *)
(* before a second tensor.  The decode computes ModelParameters; Elements  *)
(* and Bytes are called on each tensor.                                    *)
(***************************************************************************)
\* at most this many dimensions in a shape
MaxDims == 3

\* The sizes of the first dimension and of the later ones
FirstDims == {0, 1, 32, 256}
OtherDims == {0, 1, 2, 3}

Shapes ==
    UNION { { d \in [1 .. n -> FirstDims \cup OtherDims] :
                /\ n > 0 => d[1] \in FirstDims
                /\ \A k \in 2 .. n : d[k] \in OtherDims } : n \in 0 .. MaxDims }

TensorTypes ==
    { GGMLTypeF32, GGMLTypeF16, GGMLTypeQ4_0, GGMLTypeQ8_0, GGMLTypeQ4_K, GGMLTypeQ6_K }

TensorInputs == [ dims : Shapes, type : TensorTypes, more : BOOLEAN ]

TensorList(i) ==
    << DecodedTensor([name |-> Str_t, dims |-> i.dims, type |-> i.type, offset |-> 0], 24) >>
    \o (IF i.more THEN << DecodedTensor(FileTensor(1), 60) >> ELSE <<>>)

InitTensor ==
    /\ inp \in TensorInputs
    /\ f = <<>>
    /\ s = MaxPds + MaxData
    /\ o = [SkipLargeMetadata |-> FALSE, MMap |-> FALSE]
    /\ pos = MaxPds
    /\ bo = "LE"
    /\ pc = "padding"
    /\ gf = [ ZeroFile EXCEPT
                !.Header.Magic = GGUFMagicGGUFLe,
                !.Header.Version = GGUFVersionV3,
                !.Header.TensorCount = Len(TensorList(inp)),
                !.TensorInfos = TensorList(inp) ]
    /\ ag = 32
    /\ err = ""
    /\ ret = NoCall

\* gf.TensorInfos[k].Elements()
CallElements ==
    /\ pc = "done"
    /\ ret = NoCall
    /\ \E k \in 1 .. Len(gf.TensorInfos) :
           ret' = [call |-> "Elements", k |-> k, r |-> TensorElements(gf.TensorInfos[k])]
    /\ UNCHANGED <<inp, f, s, o, pos, bo, pc, gf, ag, err>>

\* gf.TensorInfos[k].Bytes()
CallBytes ==
    /\ pc = "done"
    /\ ret = NoCall
    /\ \E k \in 1 .. Len(gf.TensorInfos) :
           ret' = [call |-> "Bytes", k |-> k, r |-> TensorBytes(gf.TensorInfos[k])]
    /\ UNCHANGED <<inp, f, s, o, pos, bo, pc, gf, ag, err>>

NextTensor == ComputePadding \/ CallElements \/ CallBytes

SpecTensor == InitTensor /\ [][NextTensor]_vars

\* The product of the numbers of a sequence
RECURSIVE Product(_)
Product(d) == IF Len(d) = 0 THEN 1 ELSE Head(d) * Product(Tail(d))

\* The shape of the k-th tensor of the file of this specification
ShapeOf(k) == IF k = 1 THEN inp.dims ELSE FileTensor(1).dims

\* C16: Elements of a tensor is 0 when it has no dimension and else the
\* product of its dimension sizes; ModelParameters of a decoded file is the
\* sum of Elements over its tensor infos.
C16_Elements ==
    /\ (ret # NoCall /\ ret.call = "Elements") =>
           ret.r = IF Len(ShapeOf(ret.k)) = 0 THEN 0 ELSE Product(ShapeOf(ret.k))
    /\ pc = "done" =>
           gf.ModelParameters =
               (IF Len(inp.dims) = 0 THEN 0 ELSE Product(inp.dims))
               + (IF inp.more THEN 8 ELSE 0)

\* Elements has been called on a tensor of 32 x 3 x 2 elements that comes
\* before a second tensor of 8
C16_Witness ==
    /\ ret # NoCall
    /\ ret.call = "Elements"
    /\ ret.k = 1
    /\ inp.dims = <<32, 3, 2>>
    /\ ret.r = 192
    /\ gf.ModelParameters = 200

\* The stride of dimension i (from 0) of a shape d of a type of block size
\* B and type size T
RECURSIVE Stride(_, _, _, _)
Stride(d, B, T, i) ==
    IF i = 0 THEN T
    ELSE IF i = 1 THEN T * (d[1] \div B)
    ELSE Stride(d, B, T, i - 1) * d[i]

\* The sum of (d[i] - 1) * stride[i] over the dimensions from..Len(d) - 1
RECURSIVE StrideSum(_, _, _, _)
StrideSum(d, B, T, from) ==
    IF from >= Len(d) THEN 0
    ELSE (d[from + 1] - 1) * Stride(d, B, T, from) + StrideSum(d, B, T, from + 1)

\* C17: Bytes of a tensor is 0 when it has no dimension.  Else, with
\* stride[0] the type size, stride[1] = stride[0] * (dim[0] / block size)
\* and stride[i] = stride[i-1] * dim[i-1] from 2 on, it is the type size
\* plus the sum of (dim[i] - 1) * stride[i] over all i for a dense type
\* (block size 1), and dim[0] * stride[0] / block size plus that sum over
\* i >= 1 for a block type; a dense tensor of shape [1] takes the type size.
C17_Bytes ==
    (ret # NoCall /\ ret.call = "Bytes") =>
        LET d == ShapeOf(ret.k)
            tt == Trait(gf.TensorInfos[ret.k].Type)
        IN  /\ ret.r.kind = "ok"
            /\ ret.r.v =
                   IF Len(d) = 0 THEN 0
                   ELSE IF tt.BlockSize = 1
                   THEN tt.TypeSize + StrideSum(d, 1, tt.TypeSize, 0)
                   ELSE (d[1] * tt.TypeSize) \div tt.BlockSize
                        + StrideSum(d, tt.BlockSize, tt.TypeSize, 1)
            /\ (tt.BlockSize = 1 /\ d = <<1>>) => ret.r.v = tt.TypeSize

\* Bytes has been called on a Q4_K tensor of 256 x 3 x 2 elements: 6 blocks
\* of 144 bytes
C17_Witness ==
    /\ ret # NoCall
    /\ ret.call = "Bytes"
    /\ ret.k = 1
    /\ inp.type = GGMLTypeQ4_K
    /\ inp.dims = <<256, 3, 2>>
    /\ ret.r = Ok(864)

(***************************************************************************)
(* The inference specification: a decoded file whose tensor list holds     *)
(* 0 .. MaxPerType "blk" tensors of each of four element types and, or     *)
(* not, an "output" tensor; its metadata declares general.file_type, with  *)
(* a tag of DeclaredTags, or not.  guessFileType and Model are called on   *)
(* it.                                                                     *)
(***************************************************************************)
\* n tensor descriptions "blk.0.<letter>" of 256 elements of type t, the
\* letters from the k-th on
BlkTensors(n, t, k) ==
    [ j \in 1 .. n |->
        [ name |-> Str_blk \o <<Dot, 48, Dot, 97 + k + j>>, dims |-> <<256>>,
          type |-> t, offset |-> 0 ] ]

InferDescs(i) ==
    BlkTensors(i.n4, GGMLTypeQ4_K, 0)
    \o BlkTensors(i.n6, GGMLTypeQ6_K, i.n4)
    \o BlkTensors(i.n3, GGMLTypeQ3_K, i.n4 + i.n6)
    \o BlkTensors(i.nf, GGMLTypeF32, i.n4 + i.n6 + i.n3)
    \o (IF i.output
        THEN << [name |-> Str_output, dims |-> <<256>>, type |-> GGMLTypeQ6_K,
                 offset |-> 0] >>
        ELSE <<>>)

InferTensors(i) ==
    LET ds == InferDescs(i) IN [ j \in 1 .. Len(ds) |-> DecodedTensor(ds[j], 0) ]

InferKVs(i) ==
    IF i.declared
    THEN << DecodedKV(Key_file_type, GGUFMetadataValueTypeUint32, i.tag) >>
    ELSE <<>>

\* The tags a general.file_type entry declares: the first defined one, Q8_0,
\* and the two lowest that are out of range
DeclaredTags ==
    { GGUFFileTypeAllF32, GGUFFileTypeMostlyQ8_0, GGUFFileTypeCount,
      GGUFFileTypeCount + 1 }

InferInputs ==
    [ n4 : 0 .. MaxPerType, n6 : 0 .. MaxPerType, n3 : 0 .. MaxPerType,
      nf : 0 .. MaxPerType, output : BOOLEAN, declared : {FALSE},
      tag : {GGUFFileTypeCount} ]
    \cup [ n4 : 0 .. MaxPerType, n6 : 0 .. MaxPerType, n3 : 0 .. MaxPerType,
           nf : 0 .. MaxPerType, output : BOOLEAN, declared : {TRUE},
           tag : DeclaredTags ]

InitInfer ==
    /\ inp \in InferInputs
    /\ f = <<>>
    /\ s = 96 + MaxData
    /\ o = [SkipLargeMetadata |-> FALSE, MMap |-> FALSE]
    /\ pos = 64
    /\ bo = "LE"
    /\ pc = "done"
    /\ gf = WithSizes([ ZeroFile EXCEPT
                          !.Header.Magic = GGUFMagicGGUFLe,
                          !.Header.Version = GGUFVersionV3,
                          !.Header.TensorCount = Len(InferTensors(inp)),
                          !.Header.MetadataKVCount = Len(InferKVs(inp)),
                          !.Header.MetadataKV = InferKVs(inp),
                          !.TensorInfos = InferTensors(inp) ],
                      32, 64, 96 + MaxData)
    /\ ag = 32
    /\ err = ""
    /\ ret = NoCall

\* gf.guessFileType(), with any ranking its sort may produce
CallGuessFileType ==
    /\ pc = "done"
    /\ ret = NoCall
    /\ \E ts \in Rankings(gf.TensorInfos) :
           ret' = [call |-> "guessFileType", r |-> guessFileType(gf.TensorInfos, ts)]
    /\ UNCHANGED <<inp, f, s, o, pos, bo, pc, gf, ag, err>>

NextInfer == CallGuessFileType \/ CallModel

SpecInfer == InitInfer /\ [][NextInfer]_vars

\* C2: when Q4_K is the most frequent element type of the "blk" tensors and
\* Q6_K the next most frequent (as with four Q4_K tensors and one Q6_K one
\* and no other type), guessFileType, and Model when no file type is
\* declared, return the legacy Q4_K_M tag GGUFFileTypeMostlyIQ2_XXS.
C2_InferQ4KM ==
    ( /\ ret # NoCall
      /\ ~inp.declared
      /\ inp.n4 > inp.n6
      /\ inp.n6 > inp.n3
      /\ inp.n6 > inp.nf ) =>
        /\ ret.r.kind = "ok"
        /\ (IF ret.call = "Model" THEN ret.r.v.FileType ELSE ret.r.v)
             = GGUFFileTypeMostlyIQ2_XXS

\* C3: guessFileType is total: on every tensor list it returns one file type
\* tag or the sentinel GGUFFileTypeCount; it never aborts.
C3_InferTotal ==
    (ret # NoCall /\ ret.call = "guessFileType") =>
        /\ ret.r.kind = "ok"
        /\ ret.r.v \in 0 .. GGUFFileTypeCount

(***************************************************************************)
(* The accessor specification: files with one metadata entry, a scalar of  *)
(* any type or an array of any element type with 0 .. MaxArrayLen items,   *)
(* are decoded with and without SkipLargeMetadata; on the decoded entry    *)
(* one of ValueX, ValueArray().ValuesX and ValueNumeric[T] is called.      *)
(***************************************************************************)
\* The k-th sample value of a tag, as a value of a description
ScalarSample(vt, k) ==
    CASE vt = GGUFMetadataValueTypeUint8 -> (100 * k) % 256
      [] vt = GGUFMetadataValueTypeInt8 -> 5 - 4 * k
      [] vt = GGUFMetadataValueTypeUint16 -> 257 * k
      [] vt = GGUFMetadataValueTypeInt16 -> 300 - 301 * k
      [] vt = GGUFMetadataValueTypeUint32 -> 70000 * k
      [] vt = GGUFMetadataValueTypeInt32 -> 0 - 70000 * k
      [] vt = GGUFMetadataValueTypeFloat32 -> 1069547520 + 8388608 * k
      [] vt = GGUFMetadataValueTypeBool -> k % 2
      [] vt = GGUFMetadataValueTypeString -> [j \in 1 .. k |-> 97 + j]
      [] vt = GGUFMetadataValueTypeArray ->
            [et |-> GGUFMetadataValueTypeUint8, items |-> [j \in 1 .. k |-> j]]
      [] vt = GGUFMetadataValueTypeUint64 -> 9 * k
      [] vt = GGUFMetadataValueTypeInt64 -> 0 - 9 * k
      [] vt = GGUFMetadataValueTypeFloat64 -> [hi |-> 1074003968 + 1048576 * k, lo |-> 0]

ArraySample(et, n) == [et |-> et, items |-> [j \in 1 .. n |-> ScalarSample(et, j)]]

AccessInputs ==
    [ kind : {"scalar"}, vt : ValueTypes \ {GGUFMetadataValueTypeArray},
      k : 1 .. 2, skip : BOOLEAN, magic : {GGUFMagicGGUFLe, GGUFMagicGGUFBe} ]
    \cup [ kind : {"array"}, vt : ValueTypes, k : 0 .. MaxArrayLen, skip : BOOLEAN,
           magic : {GGUFMagicGGUFLe, GGUFMagicGGUFBe} ]

AccessDesc(i) ==
    [ magic |-> i.magic, order |-> OrderOf(i.magic), version |-> GGUFVersionV3,
      kvs |-> << IF i.kind = "scalar"
                 THEN [key |-> Str_a, vt |-> i.vt, val |-> ScalarSample(i.vt, i.k)]
                 ELSE [key |-> Str_a, vt |-> GGUFMetadataValueTypeArray,
                       val |-> ArraySample(i.vt, i.k)] >>,
      tis |-> << FileTensor(1) >>,
      tail |-> MaxTail ]

InitAccess ==
    /\ inp \in AccessInputs
    /\ f = EncFile(AccessDesc(inp))
    /\ s = Len(f)
    /\ o = [SkipLargeMetadata |-> inp.skip, MMap |-> FALSE]
    /\ pos = 0
    /\ bo = "LE"
    /\ pc = "magic"
    /\ gf = ZeroFile
    /\ ag = 32
    /\ err = ""
    /\ ret = NoCall

\* kv.ValueUint8() .. kv.ValueFloat64() on the first entry
CallValueX ==
    /\ pc = "done"
    /\ ret = NoCall
    /\ \E X \in ValueTypes :
           ret' = [ call |-> "Value", X |-> X, T |-> "",
                    r |-> ValueX(gf.Header.MetadataKV[1], X) ]
    /\ UNCHANGED <<inp, f, s, o, pos, bo, pc, gf, ag, err>>

\* kv.ValueArray().ValuesUint8() .. ValuesFloat64() on the first entry
CallValuesX ==
    /\ pc = "done"
    /\ ret = NoCall
    /\ \E X \in ValueTypes :
           LET av == ValueX(gf.Header.MetadataKV[1], GGUFMetadataValueTypeArray)
           IN  ret' = [ call |-> "Values", X |-> X, T |-> "",
                        r |-> IF av.kind # "ok" THEN av ELSE ValuesX(av.v, X) ]
    /\ UNCHANGED <<inp, f, s, o, pos, bo, pc, gf, ag, err>>

\* ValueNumeric[T](kv) on the first entry
CallValueNumeric ==
    /\ pc = "done"
    /\ ret = NoCall
    /\ \E T \in NumericTargets :
           ret' = [ call |-> "ValueNumeric", X |-> gf.Header.MetadataKV[1].ValueType,
                    T |-> T, r |-> ValueNumeric(T, gf.Header.MetadataKV[1]) ]
    /\ UNCHANGED <<inp, f, s, o, pos, bo, pc, gf, ag, err>>

NextAccess == Parse \/ CallValueX \/ CallValuesX \/ CallValueNumeric

SpecAccess == InitAccess /\ [][NextAccess]_vars

\* C4: ValueNumeric[T] accepts a decoded entry of every integer and floating
\* tag (uint8 .. float64) and returns its value converted to T; it fails
\* for the tags bool, string and array only.
C4_ValueNumericTotal ==
    (ret # NoCall /\ ret.call = "ValueNumeric") =>
        LET kv == gf.Header.MetadataKV[1]
        IN  IF kv.ValueType \in NumericValueTypes
            THEN /\ ret.r.kind = "ok"
                 /\ ret.r.v = Convert(ret.T, kv.Value)
            ELSE ret.r.kind = "panic"

\* Whether the Go value v is the i-th sample of tag X as the decoder makes it
IsSample(v, X, i) ==
    CASE X = GGUFMetadataValueTypeBool -> v = (ScalarSample(X, i) # 0)
      [] X = GGUFMetadataValueTypeArray ->
            v.Type = GGUFMetadataValueTypeUint8 /\ v.Len = i
      [] OTHER -> v = ScalarSample(X, i)

\* C10: a typed accessor ValueX, or ValuesX on an array, called on an entry
\* whose tag (for ValuesX: whose element tag) is not X fails with "invalid
\* type"; called on an entry whose tag is X it returns the stored value:
\* ValueX the value, ValuesX the Len items of the array.
C10_TypedAccessors ==
    (ret # NoCall /\ ret.call \in {"Value", "Values"}) =>
        LET kv == gf.Header.MetadataKV[1]
            isArray == kv.ValueType = GGUFMetadataValueTypeArray
            match == IF ret.call = "Value" THEN kv.ValueType = ret.X
                     ELSE isArray /\ kv.Value.v.Type = ret.X
        IN  IF ~match
            THEN ret.r.kind = "panic" /\ ret.r.msg = "invalid type"
            ELSE /\ ret.r.kind = "ok"
                 /\ IF ret.call = "Value" THEN ret.r.v = kv.Value.v
                    ELSE /\ Len(ret.r.v) = kv.Value.v.Len
                         /\ \A i \in 1 .. Len(ret.r.v) :
                                IsSample(ret.r.v[i], ret.X, i)

(***************************************************************************)
(* The array specification: _GGUFReader.ReadArray is run twice at the same *)
(* cursor on the same bytes, once with SkipLargeMetadata unset and once    *)
(* with it set.  The bytes hold the key of an entry and its tag, then an   *)
(* array of 0 .. MaxArrayLen items of any element type, then other bytes.  *)
(***************************************************************************)
ArrayInputs ==
    [ vt : ValueTypes, k : 0 .. MaxArrayLen, version : {GGUFVersionV1, GGUFVersionV3},
      magic : {GGUFMagicGGUFLe, GGUFMagicGGUFBe}, mmap : BOOLEAN ]

ArrayDesc(i) ==
    [ magic |-> i.magic, order |-> OrderOf(i.magic), version |-> i.version,
      kvs |-> <<>>, tis |-> <<>>, tail |-> 0 ]

\* The bytes before the array: the entry's key and its tag
ArrayPrefix(i) ==
    EncString(Str_bc, ArrayDesc(i))
    \o EncInt(GGUFMetadataValueTypeArray, 4, OrderOf(i.magic))

\* What a call of ReadArray came to: how it ended, the fields of the value
\* it returned and the cursor it left
NoArray ==
    [kind |-> "none", Type |-> 0, Len |-> 0, StartOffset |-> 0, Size |-> 0, pos |-> 0]

ArrayOutcome(r) ==
    IF r.kind = "ok"
    THEN [ kind |-> "ok", Type |-> r.v.Type, Len |-> r.v.Len,
           StartOffset |-> r.v.StartOffset, Size |-> r.v.Size, pos |-> r.pos ]
    ELSE [NoArray EXCEPT !.kind = r.kind, !.pos = r.pos]

InitArray ==
    /\ inp \in ArrayInputs
    /\ f = ArrayPrefix(inp)
           \o EncValue(GGUFMetadataValueTypeArray, ArraySample(inp.vt, inp.k),
                       ArrayDesc(inp))
           \o [j \in 1 .. MaxTail |-> 0]
    /\ s = Len(f)
    /\ o = [SkipLargeMetadata |-> FALSE, MMap |-> inp.mmap]
    /\ pos = Len(ArrayPrefix(inp))
    /\ bo = OrderOf(inp.magic)
    /\ pc = "kv"
    /\ gf = [ ZeroFile EXCEPT !.Header.Magic = inp.magic,
                              !.Header.Version = inp.version,
                              !.Header.MetadataKVCount = 1 ]
    /\ ag = 32
    /\ err = ""
    /\ ret = [call |-> "ReadArray", full |-> NoArray, skipped |-> NoArray]

\* rd.ReadArray() with the items materialized
ReadArrayFull ==
    /\ ret.full.kind = "none"
    /\ ret' = [ ret EXCEPT !.full =
                  ArrayOutcome(ReadArray([Reader EXCEPT !.o.SkipLargeMetadata = FALSE],
                                         pos)) ]
    /\ UNCHANGED <<inp, f, s, o, pos, bo, pc, gf, ag, err>>

\* rd.ReadArray() with the items skipped
ReadArraySkipped ==
    /\ ret.skipped.kind = "none"
    /\ ret' = [ ret EXCEPT !.skipped =
                  ArrayOutcome(ReadArray([Reader EXCEPT !.o.SkipLargeMetadata = TRUE],
                                         pos)) ]
    /\ UNCHANGED <<inp, f, s, o, pos, bo, pc, gf, ag, err>>

NextArray == ReadArrayFull \/ ReadArraySkipped

SpecArray == InitArray /\ [][NextArray]_vars

\* C6: on the same bytes holding an array of any legal element type, an
\* array of arrays included, ReadArray with SkipLargeMetadata set and
\* ReadArray with it unset both succeed, return the same Type, Len,
\* StartOffset and Size and leave the cursor at the same place.
C6_SkipEquivalence ==
    (ret.full.kind # "none" /\ ret.skipped.kind # "none") =>
        /\ ret.full.kind = "ok"
        /\ ret.skipped = ret.full

(***************************************************************************)
(* The layer hierarchy (file.go, 452-503 and 1102-1127).  A                *)
(* GGUFLayerTensorInfos is a sequence of nodes [kind, Name, info, items]:  *)
(* kind "tensor" is a GGUFTensorInfo (info), kind "named" a                *)
(* *GGUFNamedTensorInfos (Name and items).  As the named nodes are held by *)
(* pointer, pm maps a key to the place of its node in the tree: <<i>> for  *)
(* the i-th node of the list, <<i, j>> for the j-th item of that node.     *)
(***************************************************************************)
ZeroTensor ==
    [ Name |-> <<>>, NDimensions |-> 0, Dimensions |-> <<>>, Type |-> 0,
      Offset |-> 0, StartOffset |-> 0 ]

\* A tensor put into a namespace of its own
LeafInNamespace(ti) ==
    [ kind |-> "named", Name |-> ti.Name, info |-> ti,
      items |-> << [kind |-> "tensor", Name |-> ti.Name, info |-> ti, items |-> <<>>] >> ]

Leaf(ti) == [kind |-> "tensor", Name |-> ti.Name, info |-> ti, items |-> <<>>]

Named(p) == [kind |-> "named", Name |-> p, info |-> ZeroTensor, items |-> <<>>]

\* An append that forgets what the namespace held
AppendAtAlone(ls, path, node) ==
    IF Len(path) = 1
    THEN [ls EXCEPT ![path[1]].items = <<node>>]
    ELSE [ls EXCEPT ![path[1]].items[path[2]].items = <<node>>]

\* l.GGUFLayerTensorInfos = append(l.GGUFLayerTensorInfos, node) for the
\* node l at path
AppendAt(ls, path, node) ==
    IF Len(path) = 1
    THEN [ls EXCEPT ![path[1]].items = Append(@, node)]
    ELSE [ls EXCEPT ![path[1]].items[path[2]].items = Append(@, node)]

\* Lines 473-477 without the lookup in pm: a new namespace for every tensor
WithTopAnew(st, p) ==
    [ ret |-> Append(st.ret, [kind |-> "named", Name |-> p, info |-> ZeroTensor,
                              items |-> <<>>]),
      pm |-> MapPut(st.pm, p, <<Len(st.ret) + 1>>) ]

\* Lines 473-477: the namespace of key p, made at the end of the list when
\* pm has none
WithTop(st, p) ==
    IF p \in DOMAIN st.pm THEN st
    ELSE [ ret |-> Append(st.ret, Named(p)),
           pm |-> MapPut(st.pm, p, <<Len(st.ret) + 1>>) ]

\* Lines 492-497: the namespace of key q, made inside the namespace xl of key
\* p when pm has none
WithNested(st, p, q) ==
    IF q \in DOMAIN st.pm THEN st
    ELSE [ ret |-> AppendAt(st.ret, st.pm[p], Named(q)),
           pm |-> MapPut(st.pm, q,
                         st.pm[p] \o <<Len(st.ret[st.pm[p][1]].items) + 1>>) ]

\* One turn of the loop of lines 465-500
LayersStep(st, ti) ==
    LET ps == Split(ti.Name)
    IN  IF Len(ps) >= 2 /\ ps[1] = Str_blk
        THEN LET p == Join(<<ps[1], ps[2]>>)
                 st1 == WithTop(st, p)
             IN  [st1 EXCEPT !.ret = AppendAt(st1.ret, st1.pm[p], Leaf(ti))]
        ELSE IF Len(ps) >= 3 /\ ps[1] \in {Str_decoder, Str_encoder}
        THEN LET p == ps[1]
                 st1 == WithTop(st, p)
                 q == Join(<<ps[1], ps[2], ps[3]>>)
                 st2 == WithNested(st1, p, q)
             IN  IF ps[2] # Str_block
                 THEN [st1 EXCEPT !.ret = AppendAt(st1.ret, st1.pm[p], Leaf(ti))]
                 ELSE [st2 EXCEPT !.ret = AppendAt(st2.ret, st2.pm[q], Leaf(ti))]
        ELSE [st EXCEPT !.ret = Append(st.ret, Leaf(ti))]

RECURSIVE LayersLoop(_, _, _)
LayersLoop(tis, i, st) ==
    IF i > Len(tis) THEN st ELSE LayersLoop(tis, i + 1, LayersStep(st, tis[i]))

\* gf.layers(), which Layers() with no ignores returns
Layers(g) == LayersLoop(g.TensorInfos, 1, [ret |-> <<>>, pm |-> <<>>]).ret

\* GGUFLayerTensorInfos.Elements / Bytes / Count (lines 1102-1127); a tensor
\* counts 1
RECURSIVE LayerElements(_)
LayerElements(ls) ==
    IF Len(ls) = 0 THEN 0
    ELSE (IF Head(ls).kind = "tensor" THEN TensorElements(Head(ls).info)
          ELSE LayerElements(Head(ls).items))
         + LayerElements(Tail(ls))

RECURSIVE LayerBytes(_)
LayerBytes(ls) ==
    IF Len(ls) = 0 THEN Ok(0)
    ELSE LET h == IF Head(ls).kind = "tensor" THEN TensorBytes(Head(ls).info)
                  ELSE LayerBytes(Head(ls).items)
             r == LayerBytes(Tail(ls))
         IN  IF h.kind # "ok" THEN h
             ELSE IF r.kind # "ok" THEN r
             ELSE Ok(h.v + r.v)

RECURSIVE LayerCount(_)
LayerCount(ls) ==
    IF Len(ls) = 0 THEN 0
    ELSE (IF Head(ls).kind = "tensor" THEN 1 ELSE LayerCount(Head(ls).items))
         + LayerCount(Tail(ls))

\* The loop of GGUFLayerTensorInfos.Cut (lines 1141-1156): a tensor goes by
\* its name, a namespace by its name
RECURSIVE CutLoop(_, _, _, _, _)
CutLoop(ltis, ns, i, before, after) ==
    IF i > Len(ltis) THEN [before |-> before, after |-> after, found |-> Len(before) > 0]
    ELSE IF ltis[i].Name \in ns
    THEN CutLoop(ltis, ns, i + 1, Append(before, ltis[i]), after)
    ELSE CutLoop(ltis, ns, i + 1, before, Append(after, ltis[i]))

\* A cut that finds nothing
CutNothing(ltis, names) == [before |-> <<>>, after |-> ltis, found |-> FALSE]

\* GGUFLayerTensorInfos.Cut
Cut(ltis, names) ==
    CutLoop(ltis, { names[i] : i \in 1 .. Len(names) }, 1, <<>>, <<>>)

\* GGUFFile.Layers(ignores...) (lines 452-459)
LayersIgnoring(g, ignores) ==
    IF Len(ignores) # 0 THEN Cut(Layers(g), ignores).after ELSE Layers(g)

(***************************************************************************)
(* The layers specification: a decoded file with 0 .. MaxTensors tensors,  *)
(* their names drawn from LayerNames (with repetition), is regrouped by    *)
(* Layers().                                                               *)
(***************************************************************************)
\* "blk.0.w", "blk.0.t", "blk.1.w", "blk", "output", "encoder.bc",
\* "encoder.t.w", "encoder.block.0.w", "encoder.block.0.t",
\* "decoder.block.0.w", "encoder.block.1.w"
LayerNames ==
    << Join(<<Str_blk, <<48>>, <<119>>>>),
       Join(<<Str_blk, <<48>>, Str_t>>),
       Join(<<Str_blk, <<49>>, <<119>>>>),
       Str_blk,
       Str_output,
       Join(<<Str_encoder, Str_bc>>),
       Join(<<Str_encoder, Str_t, <<119>>>>),
       Join(<<Str_encoder, Str_block, <<48>>, <<119>>>>),
       Join(<<Str_encoder, Str_block, <<48>>, Str_t>>),
       Join(<<Str_decoder, Str_block, <<48>>, <<119>>>>),
       Join(<<Str_encoder, Str_block, <<49>>, <<119>>>>) >>

\* The tensor of the k-th name: 256 x k elements, Q4_K for an even k and F32
\* for an odd one
LayerTensor(k) ==
    DecodedTensor([ name |-> LayerNames[k], dims |-> <<256, k>>,
                    type |-> IF k % 2 = 0 THEN GGMLTypeQ4_K ELSE GGMLTypeF32,
                    offset |-> 0 ], 0)

LayersInputs ==
    UNION { [sel : [1 .. n -> 1 .. Len(LayerNames)]] : n \in 0 .. MaxTensors }

InitLayers ==
    /\ inp \in LayersInputs
    /\ f = <<>>
    /\ s = 96 + MaxData
    /\ o = [SkipLargeMetadata |-> FALSE, MMap |-> FALSE]
    /\ pos = 64
    /\ bo = "LE"
    /\ pc = "done"
    /\ gf = WithSizes([ ZeroFile EXCEPT
                          !.Header.Magic = GGUFMagicGGUFLe,
                          !.Header.Version = GGUFVersionV3,
                          !.Header.TensorCount = Len(inp.sel),
                          !.TensorInfos =
                              [j \in 1 .. Len(inp.sel) |-> LayerTensor(inp.sel[j])] ],
                      32, 64, 96 + MaxData)
    /\ ag = 32
    /\ err = ""
    /\ ret = NoCall

\* gf.Layers()
CallLayers ==
    /\ pc = "done"
    /\ ret = NoCall
    /\ ret' = [call |-> "Layers", ls |-> Layers(gf)]
    /\ UNCHANGED <<inp, f, s, o, pos, bo, pc, gf, ag, err>>

\* The name lists given to Cut and, as ignores, to Layers: "blk.0";
\* "encoder", "output"; "blk.0.w"; "output", "output"; "encoder.block.0",
\* "blk"
NameLists ==
    << << Join(<<Str_blk, <<48>>>>) >>,
       << Str_encoder, Str_output >>,
       << Join(<<Str_blk, <<48>>, <<119>>>>) >>,
       << Str_output, Str_output >>,
       << Join(<<Str_encoder, Str_block, <<48>>>>), Str_blk >> >>

\* gf.Layers(ignores...) with a non-empty ignores list
CallLayersIgnoring ==
    /\ pc = "done"
    /\ ret = NoCall
    /\ \E n \in 1 .. Len(NameLists) :
           ret' = [ call |-> "LayersIgnoring", names |-> NameLists[n],
                    ls |-> LayersIgnoring(gf, NameLists[n]) ]
    /\ UNCHANGED <<inp, f, s, o, pos, bo, pc, gf, ag, err>>

\* gf.Layers().Cut(names), also with no name
CallCut ==
    /\ pc = "done"
    /\ ret = NoCall
    /\ \E n \in 0 .. Len(NameLists) :
           LET names == IF n = 0 THEN <<>> ELSE NameLists[n]
           IN  ret' = [ call |-> "Cut", names |-> names, r |-> Cut(Layers(gf), names) ]
    /\ UNCHANGED <<inp, f, s, o, pos, bo, pc, gf, ag, err>>

NextLayers == CallLayers \/ CallLayersIgnoring \/ CallCut

SpecLayers == InitLayers /\ [][NextLayers]_vars

\* The tensors at the leaves of a tree, in the order of the tree
RECURSIVE Leaves(_)
Leaves(ls) ==
    IF Len(ls) = 0 THEN <<>>
    ELSE (IF Head(ls).kind = "tensor" THEN <<Head(ls).info>>
          ELSE Leaves(Head(ls).items))
         \o Leaves(Tail(ls))

\* How often x occurs in the sequence q
Occurrences(q, x) == Cardinality({ i \in 1 .. Len(q) : q[i] = x })

\* C5: regrouping loses nothing.  Elements, Bytes and Count of the tree that
\* Layers() returns are those of the flat tensor list, and every tensor of
\* the list is at exactly one leaf of the tree: the leaves hold each tensor
\* as often as the list does.
C5_RegroupingLossless ==
    (ret # NoCall /\ ret.call = "Layers") =>
        LET leaves == Leaves(ret.ls)
        IN  /\ LayerElements(ret.ls) = TensorInfosElements(gf.TensorInfos)
            /\ LayerBytes(ret.ls) = TensorInfosBytes(gf.TensorInfos)
            /\ LayerCount(ret.ls) = TensorInfosCount(gf.TensorInfos)
            /\ Len(leaves) = Len(gf.TensorInfos)
            /\ \A i \in 1 .. Len(gf.TensorInfos) :
                   Occurrences(leaves, gf.TensorInfos[i])
                     = Occurrences(gf.TensorInfos, gf.TensorInfos[i])

\* Three tensors were regrouped into one "encoder" namespace holding a
\* tensor and an "encoder.block.0" namespace of two
C5_Witness ==
    /\ ret # NoCall
    /\ ret.call = "Layers"
    /\ Len(gf.TensorInfos) = 3
    /\ Len(ret.ls) = 1
    /\ ret.ls[1].Name = Str_encoder
    /\ Len(ret.ls[1].items) = 2
    /\ ret.ls[1].items[2].kind = "named"
    /\ Len(ret.ls[1].items[2].items) = 2
    /\ LayerCount(ret.ls) = 3

\* The namespaces above the tensor info of each name of LayerNames, from
\* the top: those the grouping rule gives the name
ExpectedBranch ==
    LET blk0 == Str_blk \o <<Dot, 48>>
        blk1 == Str_blk \o <<Dot, 49>>
        enc0 == Str_encoder \o <<Dot>> \o Str_block \o <<Dot, 48>>
        enc1 == Str_encoder \o <<Dot>> \o Str_block \o <<Dot, 49>>
        dec0 == Str_decoder \o <<Dot>> \o Str_block \o <<Dot, 48>>
    IN  << <<blk0>>, <<blk0>>, <<blk1>>, <<>>, <<>>, <<>>, <<Str_encoder>>,
           <<Str_encoder, enc0>>, <<Str_encoder, enc0>>, <<Str_decoder, dec0>>,
           <<Str_encoder, enc1>> >>

\* The leaves of a tree in the order of the tree, each with the names of the
\* namespaces above it
RECURSIVE PlacedLeaves(_, _)
PlacedLeaves(ls, above) ==
    IF Len(ls) = 0 THEN <<>>
    ELSE (IF Head(ls).kind = "tensor"
          THEN << [above |-> above, info |-> Head(ls).info] >>
          ELSE PlacedLeaves(Head(ls).items, Append(above, Head(ls).Name)))
         \o PlacedLeaves(Tail(ls), above)

\* The names of the namespaces of a tree
RECURSIVE Namespaces(_)
Namespaces(ls) ==
    IF Len(ls) = 0 THEN <<>>
    ELSE (IF Head(ls).kind = "named"
          THEN <<Head(ls).Name>> \o Namespaces(Head(ls).items) ELSE <<>>)
         \o Namespaces(Tail(ls))

\* The tensor infos of the flat list that the rule puts below `above`, and
\* those the tree holds there, both in their order
FlatBelow(above) ==
    LET RECURSIVE Take(_)
        Take(j) == IF j > Len(inp.sel) THEN <<>>
                   ELSE (IF ExpectedBranch[inp.sel[j]] = above
                         THEN <<gf.TensorInfos[j]>> ELSE <<>>) \o Take(j + 1)
    IN  Take(1)

TreeBelow(placed, above) ==
    LET RECURSIVE Take(_)
        Take(j) == IF j > Len(placed) THEN <<>>
                   ELSE (IF placed[j].above = above THEN <<placed[j].info>> ELSE <<>>)
                        \o Take(j + 1)
    IN  Take(1)

\* C18: Layers() puts a tensor named "blk.<n>..." into the top-level
\* namespace "blk.<n>", a tensor named "encoder.<x>.<y>..." (or "decoder")
\* into the top-level namespace "encoder", directly when <x> is not "block"
\* and else into its namespace "encoder.block.<y>", and every other tensor
\* to the top level as a leaf.  No namespace name occurs twice in the tree,
\* and the tensors of a namespace are in the order of the flat list.
C18_GroupingRule ==
    (ret # NoCall /\ ret.call = "Layers") =>
        LET placed == PlacedLeaves(ret.ls, <<>>)
            names == Namespaces(ret.ls)
        IN  /\ Len(placed) = Len(gf.TensorInfos)
            /\ \A j \in 1 .. Len(placed) :
                   \E k \in 1 .. Len(ExpectedBranch) : placed[j].above = ExpectedBranch[k]
            /\ \A k \in 1 .. Len(ExpectedBranch) :
                   TreeBelow(placed, ExpectedBranch[k]) = FlatBelow(ExpectedBranch[k])
            /\ \A i, j \in 1 .. Len(names) : names[i] = names[j] => i = j

\* "blk.0.w", "encoder.block.1.w", "blk.0.t" were regrouped into "blk.0"
\* with the first and the third, and "encoder" with the second in its
\* namespace "encoder.block.1"
C18_Witness ==
    /\ ret # NoCall
    /\ ret.call = "Layers"
    /\ inp.sel = <<1, 11, 2>>
    /\ Len(ret.ls) = 2
    /\ ret.ls[1].Name = Str_blk \o <<Dot, 48>>
    /\ Len(ret.ls[1].items) = 2
    /\ ret.ls[1].items[1].info = gf.TensorInfos[1]
    /\ ret.ls[1].items[2].info = gf.TensorInfos[3]
    /\ ret.ls[2].Name = Str_encoder
    /\ ret.ls[2].items[1].items[1].info = gf.TensorInfos[2]

\* C19: in the tree that Layers() returns no leaf lies below more than two
\* namespaces, a namespace inside a namespace exists only in "encoder" and
\* in "decoder", and no namespace is empty.
C19_DepthInvariant ==
    (ret # NoCall /\ ret.call = "Layers") =>
        \A i \in 1 .. Len(ret.ls) :
            ret.ls[i].kind = "named" =>
                /\ Len(ret.ls[i].items) > 0
                /\ \A j \in 1 .. Len(ret.ls[i].items) :
                       ret.ls[i].items[j].kind = "named" =>
                           /\ ret.ls[i].Name \in {Str_encoder, Str_decoder}
                           /\ Len(ret.ls[i].items[j].items) > 0
                           /\ \A k \in 1 .. Len(ret.ls[i].items[j].items) :
                                  ret.ls[i].items[j].items[k].kind = "tensor"

\* A tree with a leaf at each depth: "output" at the top, "blk.1.w" in
\* "blk.1", "decoder.block.0.w" in "decoder.block.0" in "decoder"
C19_Witness ==
    /\ ret # NoCall
    /\ ret.call = "Layers"
    /\ inp.sel = <<5, 3, 10>>
    /\ Len(ret.ls) = 3
    /\ ret.ls[1].kind = "tensor"
    /\ ret.ls[2].items[1].kind = "tensor"
    /\ ret.ls[3].items[1].items[1].kind = "tensor"

\* Whether ls is b and a merged: the entries with a name of ns taken from b
\* in its order, the others from a in its order
RECURSIVE IsMerge(_, _, _, _)
IsMerge(ls, ns, b, a) ==
    IF Len(ls) = 0 THEN Len(b) = 0 /\ Len(a) = 0
    ELSE IF Head(ls).Name \in ns
    THEN Len(b) > 0 /\ Head(b) = Head(ls) /\ IsMerge(Tail(ls), ns, Tail(b), a)
    ELSE Len(a) > 0 /\ Head(a) = Head(ls) /\ IsMerge(Tail(ls), ns, b, Tail(a))

\* C20: Cut(names) puts every top-level entry of the tree, a tensor by its
\* name and a namespace by its name, into `before` when the name is one of
\* names and else into `after`, each entry into one of the two and in the
\* order of the tree; found tells whether `before` holds an entry; and
\* Layers(ignores...) with a non-empty list returns the `after` of the cut.
C20_CutPartition ==
    /\ (ret # NoCall /\ ret.call = "Cut") =>
           LET ns == { ret.names[i] : i \in 1 .. Len(ret.names) }
           IN  /\ IsMerge(Layers(gf), ns, ret.r.before, ret.r.after)
               /\ Len(ret.r.before) + Len(ret.r.after) = Len(Layers(gf))
               /\ ret.r.found = (Len(ret.r.before) > 0)
    /\ (ret # NoCall /\ ret.call = "LayersIgnoring") =>
           LET ns == { ret.names[i] : i \in 1 .. Len(ret.names) }
           IN  /\ \A i \in 1 .. Len(ret.ls) : ret.ls[i].Name \notin ns
               /\ IsMerge(Layers(gf), ns,
                          SelectSeq(Layers(gf), LAMBDA v : v.Name \in ns), ret.ls)

\* "encoder" and "output" were cut out of a tree of "blk.0", "encoder" and
\* "output": before holds the namespace and the tensor, after "blk.0"
C20_Witness ==
    /\ ret # NoCall
    /\ ret.call = "Cut"
    /\ ret.names = <<Str_encoder, Str_output>>
    /\ inp.sel = <<1, 7, 5>>
    /\ ret.r.found
    /\ Len(ret.r.before) = 2
    /\ ret.r.before[1].kind = "named"
    /\ ret.r.before[2].kind = "tensor"
    /\ Len(ret.r.after) = 1
    /\ ret.r.after[1].Name = Str_blk \o <<Dot, 48>>

(***************************************************************************)
(* Lookups by name: Get, Search and Index of a tensor info, of the flat    *)
(* tensor list and of the layer tree.  A Go map is a function, a nil map   *)
(* the empty one; Index returns [infos, found], Get [found, info].         *)
(***************************************************************************)
\* GGUFTensorInfo.Index: only names[0] is compared
TensorIndex(ti, names) ==
    IF Len(names) = 0 THEN [infos |-> <<>>, found |-> 0]
    ELSE IF names[1] = ti.Name
    THEN [infos |-> MapPut(<<>>, ti.Name, ti), found |-> 1]
    ELSE [infos |-> <<>>, found |-> 0]

\* The loop of GGUFTensorInfos.Index (lines 1004-1012): found counts every
\* tensor with a requested name, and the loop stops when found is len(ns)
RECURSIVE TensorInfosIndexLoop(_, _, _, _, _)
TensorInfosIndexLoop(tis, ns, i, infos, found) ==
    IF i > Len(tis) THEN [infos |-> infos, found |-> found]
    ELSE LET hit == tis[i].Name \in ns
             infos2 == IF hit THEN MapPut(infos, tis[i].Name, tis[i]) ELSE infos
             found2 == IF hit THEN found + 1 ELSE found
         IN  IF found2 = Cardinality(ns)
             THEN [infos |-> infos2, found |-> found2]
             ELSE TensorInfosIndexLoop(tis, ns, i + 1, infos2, found2)

\* GGUFTensorInfos.Index
TensorInfosIndex(tis, names) ==
    TensorInfosIndexLoop(tis, { names[i] : i \in 1 .. Len(names) }, 1, <<>>, 0)

\* The loop of GGUFLayerTensorInfos.Index (lines 1081-1098): inf is what the
\* entry adds, a namespace by its own Index, and found grows by one for
\* each key of inf
RECURSIVE LayerIndexLoop(_, _, _, _, _)
LayerIndexLoop(ltis, names, i, infos, found) ==
    IF i > Len(ltis) THEN [infos |-> infos, found |-> found]
    ELSE LET ns == { names[j] : j \in 1 .. Len(names) }
             v == ltis[i]
             inf == IF v.kind = "tensor"
                    THEN (IF v.Name \in ns THEN MapPut(<<>>, v.Name, v.info) ELSE <<>>)
                    ELSE LayerIndexLoop(v.items, names, 1, <<>>, 0).infos
             infos2 == [ k \in (DOMAIN infos) \cup (DOMAIN inf) |->
                           IF k \in DOMAIN inf THEN inf[k] ELSE infos[k] ]
             found2 == found + Cardinality(DOMAIN inf)
         IN  IF found2 = Cardinality(ns)
             THEN [infos |-> infos2, found |-> found2]
             ELSE LayerIndexLoop(ltis, names, i + 1, infos2, found2)

\* GGUFLayerTensorInfos.Index
LayerIndex(ltis, names) == LayerIndexLoop(ltis, names, 1, <<>>, 0)

\* GGUFTensorInfos.Get: the first tensor of the name in the order of the list
RECURSIVE TensorInfosGetFrom(_, _, _)
TensorInfosGetFrom(tis, name, i) ==
    IF i > Len(tis) THEN [found |-> FALSE, info |-> ZeroTensor]
    ELSE IF tis[i].Name = name THEN [found |-> TRUE, info |-> tis[i]]
    ELSE TensorInfosGetFrom(tis, name, i + 1)

TensorInfosGet(tis, name) == TensorInfosGetFrom(tis, name, 1)

\* GGUFLayerTensorInfos.Get: the first tensor of the name in the order of the
\* tree, a namespace searched by its own Get
RECURSIVE LayerGetFrom(_, _, _)
LayerGetFrom(ltis, name, i) ==
    IF i > Len(ltis) THEN [found |-> FALSE, info |-> ZeroTensor]
    ELSE LET r == IF ltis[i].kind = "tensor"
                  THEN [found |-> ltis[i].Name = name, info |-> ltis[i].info]
                  ELSE LayerGetFrom(ltis[i].items, name, 1)
         IN  IF r.found THEN r ELSE LayerGetFrom(ltis, name, i + 1)

\* A Get that looks at the top-level tensors only
LayerGetAtTop(ltis, name) ==
    LET tops == SelectSeq(ltis, LAMBDA v : v.kind = "tensor" /\ v.Name = name)
    IN  IF Len(tops) = 0 THEN [found |-> FALSE, info |-> ZeroTensor]
        ELSE [found |-> TRUE, info |-> tops[1].info]

LayerGet(ltis, name) == LayerGetFrom(ltis, name, 1)

\* nameRegex.MatchString(name) for the regular expression that is the
\* literal text re: the text occurs in the name
MatchString(re, name) ==
    \E i \in 1 .. Len(name) + 1 :
        /\ i + Len(re) - 1 <= Len(name)
        /\ SubSeq(name, i, i + Len(re) - 1) = re

\* GGUFTensorInfos.Search
RECURSIVE TensorInfosSearchFrom(_, _, _)
TensorInfosSearchFrom(tis, re, i) ==
    IF i > Len(tis) THEN <<>>
    ELSE (IF MatchString(re, tis[i].Name) THEN <<tis[i]>> ELSE <<>>)
         \o TensorInfosSearchFrom(tis, re, i + 1)

TensorInfosSearch(tis, re) == TensorInfosSearchFrom(tis, re, 1)

\* GGUFLayerTensorInfos.Search
RECURSIVE LayerSearchFrom(_, _, _)
LayerSearchFrom(ltis, re, i) ==
    IF i > Len(ltis) THEN <<>>
    ELSE (IF ltis[i].kind = "tensor"
          THEN (IF MatchString(re, ltis[i].Name) THEN <<ltis[i].info>> ELSE <<>>)
          ELSE LayerSearchFrom(ltis[i].items, re, 1))
         \o LayerSearchFrom(ltis, re, i + 1)

LayerSearch(ltis, re) == LayerSearchFrom(ltis, re, 1)

(***************************************************************************)
(* The lookup specification: a decoded file with 0 .. MaxTensors tensors,  *)
(* their names drawn from LayerNames (with repetition) and the j-th at     *)
(* data offset 32 * (j - 1), is asked for tensors by name.                 *)
(***************************************************************************)
LookupTensor(k, j) == [LayerTensor(k) EXCEPT !.Offset = 32 * (j - 1)]

InitLookup ==
    /\ inp \in LayersInputs
    /\ f = <<>>
    /\ s = 96 + MaxData
    /\ o = [SkipLargeMetadata |-> FALSE, MMap |-> FALSE]
    /\ pos = 64
    /\ bo = "LE"
    /\ pc = "done"
    /\ gf = WithSizes([ ZeroFile EXCEPT
                          !.Header.Magic = GGUFMagicGGUFLe,
                          !.Header.Version = GGUFVersionV3,
                          !.Header.TensorCount = Len(inp.sel),
                          !.TensorInfos =
                              [j \in 1 .. Len(inp.sel) |-> LookupTensor(inp.sel[j], j)] ],
                      32, 64, 96 + MaxData)
    /\ ag = 32
    /\ err = ""
    /\ ret = NoCall

\* The name lists given to Index: none; "blk.0.w"; "output", "blk.0.w";
\* "blk.0.w", "blk.0.t"
IndexLists ==
    << <<>>,
       << LayerNames[1] >>,
       << Str_output, LayerNames[1] >>,
       << LayerNames[1], LayerNames[2] >> >>

\* The names given to Get: "blk.0.w", "output", "encoder.block.0.w" and "a",
\* which no tensor has
GetNames == << LayerNames[1], Str_output, LayerNames[8], Str_a >>

\* The expressions given to Search: "w", "block.0" and "output"
SearchTexts == << <<119>>, Str_block \o <<Dot, 48>>, Str_output >>

\* gf.TensorInfos[j].Index(names)
CallTensorIndex ==
    /\ pc = "done"
    /\ ret = NoCall
    /\ \E j \in 1 .. Len(gf.TensorInfos), n \in 1 .. Len(IndexLists) :
           ret' = [ call |-> "TensorInfo.Index", on |-> <<gf.TensorInfos[j]>>,
                    names |-> IndexLists[n],
                    r |-> TensorIndex(gf.TensorInfos[j], IndexLists[n]) ]
    /\ UNCHANGED <<inp, f, s, o, pos, bo, pc, gf, ag, err>>

\* gf.TensorInfos.Index(names)
CallTensorInfosIndex ==
    /\ pc = "done"
    /\ ret = NoCall
    /\ \E n \in 1 .. Len(IndexLists) :
           ret' = [ call |-> "TensorInfos.Index", on |-> gf.TensorInfos,
                    names |-> IndexLists[n],
                    r |-> TensorInfosIndex(gf.TensorInfos, IndexLists[n]) ]
    /\ UNCHANGED <<inp, f, s, o, pos, bo, pc, gf, ag, err>>

\* gf.Layers().Index(names)
CallLayerIndex ==
    /\ pc = "done"
    /\ ret = NoCall
    /\ \E n \in 1 .. Len(IndexLists) :
           ret' = [ call |-> "LayerTensorInfos.Index", on |-> gf.TensorInfos,
                    names |-> IndexLists[n],
                    r |-> LayerIndex(Layers(gf), IndexLists[n]) ]
    /\ UNCHANGED <<inp, f, s, o, pos, bo, pc, gf, ag, err>>

\* gf.TensorInfos.Get(name)
CallTensorInfosGet ==
    /\ pc = "done"
    /\ ret = NoCall
    /\ \E n \in 1 .. Len(GetNames) :
           ret' = [ call |-> "TensorInfos.Get", name |-> GetNames[n],
                    r |-> TensorInfosGet(gf.TensorInfos, GetNames[n]) ]
    /\ UNCHANGED <<inp, f, s, o, pos, bo, pc, gf, ag, err>>

\* gf.Layers().Get(name)
CallLayerGet ==
    /\ pc = "done"
    /\ ret = NoCall
    /\ \E n \in 1 .. Len(GetNames) :
           ret' = [ call |-> "LayerTensorInfos.Get", name |-> GetNames[n],
                    r |-> LayerGet(Layers(gf), GetNames[n]) ]
    /\ UNCHANGED <<inp, f, s, o, pos, bo, pc, gf, ag, err>>

\* gf.TensorInfos.Search(nameRegex)
CallTensorInfosSearch ==
    /\ pc = "done"
    /\ ret = NoCall
    /\ \E n \in 1 .. Len(SearchTexts) :
           ret' = [ call |-> "TensorInfos.Search", re |-> SearchTexts[n],
                    r |-> TensorInfosSearch(gf.TensorInfos, SearchTexts[n]) ]
    /\ UNCHANGED <<inp, f, s, o, pos, bo, pc, gf, ag, err>>

\* gf.Layers().Search(nameRegex)
CallLayerSearch ==
    /\ pc = "done"
    /\ ret = NoCall
    /\ \E n \in 1 .. Len(SearchTexts) :
           ret' = [ call |-> "LayerTensorInfos.Search", re |-> SearchTexts[n],
                    r |-> LayerSearch(Layers(gf), SearchTexts[n]) ]
    /\ UNCHANGED <<inp, f, s, o, pos, bo, pc, gf, ag, err>>

NextLookup ==
    \/ CallTensorIndex
    \/ CallTensorInfosIndex
    \/ CallLayerIndex
    \/ CallTensorInfosGet
    \/ CallLayerGet
    \/ CallTensorInfosSearch
    \/ CallLayerSearch

SpecLookup == InitLookup /\ [][NextLookup]_vars

\* C21: Index(names) on a tensor info, on the flat tensor list and on the
\* layer tree returns a map whose keys are exactly the requested names that
\* the container holds (for a tensor info: its own name when it is anywhere
\* in names), each key mapped to a tensor of that name, and found is the
\* number of those names, the size of the map, also when several tensors of
\* the container have the same name.
C21_IndexExact ==
    (ret # NoCall /\ ret.call \in { "TensorInfo.Index", "TensorInfos.Index",
                                    "LayerTensorInfos.Index" }) =>
        LET ns == { ret.names[i] : i \in 1 .. Len(ret.names) }
            held == { ret.on[i].Name : i \in 1 .. Len(ret.on) }
        IN  /\ DOMAIN ret.r.infos = ns \cap held
            /\ ret.r.found = Cardinality(ns \cap held)
            /\ \A k \in DOMAIN ret.r.infos : ret.r.infos[k].Name = k

\* C29: lookups on the tree that Layers() returns agree with lookups on the
\* flat tensor list.  Get(name) on the tree finds a tensor iff Get(name) on
\* the list does and returns the same tensor, which is the first tensor of
\* that name in the order of the list; Search on the tree returns the tensors
\* that Search on the list returns, each as often.
C29_LookupEquivalence ==
    /\ (ret # NoCall /\ ret.call \in {"TensorInfos.Get", "LayerTensorInfos.Get"}) =>
           LET at == { j \in 1 .. Len(gf.TensorInfos) : gf.TensorInfos[j].Name = ret.name }
           IN  /\ ret.r = TensorInfosGet(gf.TensorInfos, ret.name)
               /\ ret.r.found = (at # {})
               /\ ret.r.found =>
                      \E j \in at : /\ \A k \in at : j <= k
                                    /\ ret.r.info = gf.TensorInfos[j]
    /\ (ret # NoCall /\ ret.call = "LayerTensorInfos.Search") =>
           LET flat == TensorInfosSearch(gf.TensorInfos, ret.re)
           IN  /\ Len(ret.r) = Len(flat)
               /\ \A i \in 1 .. Len(flat) :
                      Occurrences(ret.r, flat[i]) = Occurrences(flat, flat[i])
               /\ \A i \in 1 .. Len(gf.TensorInfos) :
                      Occurrences(flat, gf.TensorInfos[i])
                        = IF MatchString(ret.re, gf.TensorInfos[i].Name) THEN 1 ELSE 0

\* Of "blk.0.w" and two tensors named "encoder.block.0.w" the tree was asked
\* for "encoder.block.0.w" and returned the second tensor of the list, found
\* in the namespace "encoder.block.0" of the second branch
C29_Witness ==
    /\ ret # NoCall
    /\ ret.call = "LayerTensorInfos.Get"
    /\ inp.sel = <<1, 8, 8>>
    /\ ret.name = LayerNames[8]
    /\ ret.r.found
    /\ ret.r.info = gf.TensorInfos[2]
    /\ ret.r.info # gf.TensorInfos[3]
    /\ Layers(gf)[2].items[1].items[1].info = ret.r.info

(***************************************************************************)
(* The metadata specification: a decoded file with 0 .. MaxEntries         *)
(* metadata entries, drawn with repetition from MetadataPool so that keys  *)
(* repeat, and no tensor, is asked for entries by key.                     *)
(***************************************************************************)
MaxEntries == 3

\* general.alignment 16 and 64, general.file_type 7 and 1, general.name "a"
\* and "bc", and the entry "a"
MetadataPool ==
    << DecodedKV(Key_alignment, GGUFMetadataValueTypeUint32, 16),
       DecodedKV(Key_alignment, GGUFMetadataValueTypeUint32, 64),
       DecodedKV(Key_file_type, GGUFMetadataValueTypeUint32, GGUFFileTypeMostlyQ8_0),
       DecodedKV(Key_file_type, GGUFMetadataValueTypeUint32, GGUFFileTypeMostlyF16),
       DecodedKV(Key_name, GGUFMetadataValueTypeString, Str_a),
       DecodedKV(Key_name, GGUFMetadataValueTypeString, Str_bc),
       DecodedKV(Str_a, GGUFMetadataValueTypeUint8, 7) >>

MetadataInputs ==
    UNION { [sel : [1 .. n -> 1 .. Len(MetadataPool)]] : n \in 0 .. MaxEntries }

InitMetadata ==
    /\ inp \in MetadataInputs
    /\ f = <<>>
    /\ s = 96 + MaxData
    /\ o = [SkipLargeMetadata |-> FALSE, MMap |-> FALSE]
    /\ pos = 64
    /\ bo = "LE"
    /\ pc = "done"
    /\ gf = WithSizes([ ZeroFile EXCEPT
                          !.Header.Magic = GGUFMagicGGUFLe,
                          !.Header.Version = GGUFVersionV3,
                          !.Header.MetadataKVCount = Len(inp.sel),
                          !.Header.MetadataKV =
                              [j \in 1 .. Len(inp.sel) |-> MetadataPool[inp.sel[j]]] ],
                      32, 64, 96 + MaxData)
    /\ ag = 32
    /\ err = ""
    /\ ret = NoCall

\* The keys given to Get: those of the pool and "t", which no entry has
GetKeys == << Key_alignment, Key_file_type, Key_name, Str_a, Str_t >>

\* The key lists given to Index: none; general.alignment; general.alignment
\* and general.file_type; the keys of Model()
IndexKeyLists ==
    << <<>>, << Key_alignment >>, << Key_alignment, Key_file_type >>, ModelKeys >>

\* gf.Header.MetadataKV.Get(key)
CallKVsGet ==
    /\ pc = "done"
    /\ ret = NoCall
    /\ \E n \in 1 .. Len(GetKeys) :
           ret' = [ call |-> "MetadataKVs.Get", key |-> GetKeys[n],
                    r |-> KVsGet(gf.Header.MetadataKV, GetKeys[n]) ]
    /\ UNCHANGED <<inp, f, s, o, pos, bo, pc, gf, ag, err>>

\* gf.Header.MetadataKV.Index(keys)
CallKVsIndex ==
    /\ pc = "done"
    /\ ret = NoCall
    /\ \E n \in 1 .. Len(IndexKeyLists) :
           ret' = [ call |-> "MetadataKVs.Index", keys |-> IndexKeyLists[n],
                    r |-> KVsIndex(gf.Header.MetadataKV, IndexKeyLists[n]) ]
    /\ UNCHANGED <<inp, f, s, o, pos, bo, pc, gf, ag, err>>

NextMetadata == CallKVsGet \/ CallKVsIndex \/ CallModel

SpecMetadata == InitMetadata /\ [][NextMetadata]_vars

\* The entries of the metadata list that have the key, by their index
EntriesOf(key) ==
    { j \in 1 .. Len(gf.Header.MetadataKV) : gf.Header.MetadataKV[j].Key = key }

\* Whether kv is the entry of the lowest index among those of the key
IsFirstOf(kv, key) ==
    \E j \in EntriesOf(key) :
        /\ \A k \in EntriesOf(key) : j <= k
        /\ kv = gf.Header.MetadataKV[j]

\* C22: metadata lookups return the first match.  When several entries of
\* the metadata list have one key, Get(key) and Index(keys) both return for
\* that key the entry of the lowest index, and the alignment, file type and
\* name that Model() reports (read through Index) are those of the entries
\* that Get returns.
C22_FirstMatch ==
    /\ (ret # NoCall /\ ret.call = "MetadataKVs.Get") =>
           /\ ret.r.found = (EntriesOf(ret.key) # {})
           /\ ret.r.found => IsFirstOf(ret.r.value, ret.key)
    /\ (ret # NoCall /\ ret.call = "MetadataKVs.Index") =>
           \A k \in DOMAIN ret.r.values : IsFirstOf(ret.r.values[k], k)
    /\ (ret # NoCall /\ ret.call = "Model" /\ ret.r.kind = "ok") =>
           LET kvs == gf.Header.MetadataKV
               a == KVsGet(kvs, Key_alignment)
               t == KVsGet(kvs, Key_file_type)
               n == KVsGet(kvs, Key_name)
           IN  /\ a.found => ret.r.v.Alignment = a.value.Value.v
               /\ t.found => ret.r.v.FileType = t.value.Value.v
               /\ n.found => ret.r.v.Name = n.value.Value.v

\* The tensors whose name starts with "blk", in the order of the list
BlkOnly(tis) == SelectSeq(tis, LAMBDA t : HasPrefix(t.Name, Str_blk))

\* C23: the file type that Model() reports.  When a general.file_type entry
\* declares a defined tag (below GGUFFileTypeCount), Model() returns that
\* tag and runs no inference, so it returns whatever the tensors are.  When
\* the entry is absent or its tag is out of range, the tag is inferred from
\* the tensors whose name starts with "blk": it is GGUFFileTypeCount when
\* there is no such tensor, and whenever the inference returns, its result
\* is one that guessFileType gives for the "blk" tensors alone.
C23_FileTypeResolution ==
    (ret # NoCall /\ ret.call = "Model") =>
        IF inp.declared /\ inp.tag < GGUFFileTypeCount
        THEN ret.r.kind = "ok" /\ ret.r.v.FileType = inp.tag
        ELSE LET blk == BlkOnly(gf.TensorInfos)
             IN  /\ Len(blk) = 0 =>
                        ret.r.kind = "ok" /\ ret.r.v.FileType = GGUFFileTypeCount
                 /\ ret.r.kind = "ok" =>
                        \E ts \in Rankings(blk) :
                            guessFileType(blk, ts) = Ok(ret.r.v.FileType)

\* A file that declares the out-of-range tag GGUFFileTypeCount + 1 and has
\* two F32 "blk" tensors, one Q4_K "blk" tensor and the Q6_K "output"
\* tensor: Model() reports all-F32
C23_Witness ==
    /\ ret # NoCall
    /\ ret.call = "Model"
    /\ inp.declared
    /\ inp.tag = GGUFFileTypeCount + 1
    /\ inp.nf = 2 /\ inp.n4 = 1 /\ inp.n6 = 0 /\ inp.n3 = 0
    /\ inp.output
    /\ ret.r.kind = "ok"
    /\ ret.r.v.FileType = GGUFFileTypeAllF32

\* C26: the inferred file type is a function of the tensor list.  Whatever
\* ranking of the element types the map iteration and the sort produce, also
\* for types that occur equally often among the "blk" tensors, guessFileType
\* returns the same result: a second run on the same list, with any other
\* ranking, returns what the first returned.
C26_InferDeterministic ==
    (ret # NoCall /\ ret.call = "guessFileType") =>
        \A ts \in Rankings(gf.TensorInfos) :
            guessFileType(gf.TensorInfos, ts) = ret.r

\* C24: the model size does not underflow.  After every successful decode
\* the tensor data start is within the source, TensorDataStartOffset <= s,
\* and ModelSize <= s, also for a source that ends with its tensor infos.
C24_NoUnderflow ==
    pc = "done" =>
        /\ gf.TensorDataStartOffset <= s
        /\ gf.ModelSize <= s

\* C25: the decode never aborts.  Whatever the bytes of the source and
\* whatever SkipLargeMetadata is, parseGGUFFile ends by returning a file or
\* an error: no step of it panics.
C25_NeverAborts == pc # "panic"

(***************************************************************************)
(* The decode-and-describe specification: the decode of Spec, and Model()  *)
(* called on the file it returns.                                          *)
(***************************************************************************)
NextModel == Parse \/ CallModel

SpecModel == Init /\ [][NextModel]_vars

\* C28: Model().LittleEndian tells the byte order the decode used.  For
\* every decoded file, of whatever version, it is TRUE iff the file was
\* decoded little-endian, which is iff its magic is GGUFMagicGGUFLe; for a
\* file of the big-endian magic it is FALSE also when the version is 1 or 2.
C28_LittleEndian ==
    (ret # NoCall /\ ret.call = "Model" /\ ret.r.kind = "ok") =>
        /\ ret.r.v.LittleEndian = (bo = "LE")
        /\ ret.r.v.LittleEndian = (gf.Header.Magic = GGUFMagicGGUFLe)

\* C27: the closed form of Bytes.  For a tensor of one or more dimensions,
\* all of size 1 or more, whose first dimension is a multiple of the block
\* size of its type, Bytes is Elements / BlockSize * TypeSize, which for a
\* dense type (block size 1) is Elements * TypeSize; Elements is the product
\* of the sizes, and no value on the way leaves the unsigned 64-bit range.
C27_BytesClosedForm ==
    (ret # NoCall /\ ret.call = "Bytes") =>
        LET ti == gf.TensorInfos[ret.k]
            d == ti.Dimensions
            tt == Trait(ti.Type)
        IN  ( /\ ti.NDimensions >= 1
              /\ \A i \in 1 .. Len(d) : d[i] >= 1
              /\ d[1] % tt.BlockSize = 0 ) =>
                /\ TensorElements(ti) = Product(d)
                /\ ret.r = Ok((TensorElements(ti) \div tt.BlockSize) * tt.TypeSize)
                /\ tt.BlockSize = 1 => ret.r.v = Product(d) * tt.TypeSize
                /\ ret.r.v < Saturated

\* Bytes has been called on a Q4_0 tensor of 32 x 3 x 2 elements: 6 blocks of
\* 18 bytes
C27_Witness ==
    /\ ret # NoCall
    /\ ret.call = "Bytes"
    /\ ret.k = 1
    /\ inp.type = GGMLTypeQ4_0
    /\ inp.dims = <<32, 3, 2>>
    /\ TensorElements(gf.TensorInfos[1]) = 192
    /\ ret.r = Ok(108)

====
